---- MODULE Spec2Model ----
(***************************************************************************)
(* State-machine model of the multi-tenant WhatsApp webhook of             *)
(* src/holistic.js: tenant resolution, the contact store, the per-contact  *)
(* turn history, the domain flow handlers and the notification emitter.     *)
(*                                                                         *)
(* JavaScript strings are TLA+ strings (TLC evaluates Len, SubSeq and \o    *)
(* on them); undefined/null of a string-valued field is the falsy "".      *)
(* A Firestore document reference is the index of the document in its      *)
(* collection (0 is null); an Organisation sub-collection document whose    *)
(* id the code chooses is keyed by <<orgRef, id>>.                          *)
(***************************************************************************)
EXTENDS Integers, Sequences, FiniteSets, TLC

VARIABLES
    organisation,         \* collection "Organisation": sequence of tenant documents
    poc,                  \* collection "PoC": sequence of Contact documents
    chat,                 \* chat[i]: sub-collection PoC/i/Chat (transcript)
    patients,             \* patients[i]: sub-collection PoC/i/Patients
    appointment,          \* Organisation/*/Appointment, keyed by <<orgRef, id>>
    ticket,               \* Organisation/*/Ticket, keyed by <<orgRef, id>>
    checkin,              \* Organisation/*/Checkin, keyed by <<orgRef, id>>
    notifications,        \* Organisation/*/Notifications, in creation order
    outbox,               \* requests issued to the messaging provider
    organizationConfigs,  \* in-process cache: orgId -> configuration
    knowledgeCache,       \* in-process cache: orgId -> knowledge text
    orgSettingsCache,     \* in-process cache of the variant with expiry:
                          \* orgId -> settings and the time they were read
    adminSecret,          \* process.env.ADMIN_SECRET ("" when it is unset)
    now,                  \* the clock read by getCurrentIndianTime
    req,                  \* the request of the latest delivery
    orgId,                \* the tenant id resolved for it
    res,                  \* the HTTP status answered to it (0: none yet)
    handlers              \* concurrent deliveries in flight (SpecConc)

vars == <<organisation, poc, chat, patients, appointment, ticket, checkin, notifications,
          outbox, organizationConfigs, knowledgeCache, orgSettingsCache, adminSecret, now,
          req, orgId, res, handlers>>

-----------------------------------------------------------------------------
(* Bounds *)

\* Number of webhook deliveries handled in a run of Spec.
MaxEvents == 3

-----------------------------------------------------------------------------
(* The organization store (collection "Organisation") as deployed.          *)

OrganisationDocs ==
    << [OrgID |-> "Acme",  Name |-> "Acme Clinic",  WA_Token |-> "tokA",
        WA_Phone_ID |-> "ph1", FB_Number |-> "ph3", BillingActive |-> TRUE],
       [OrgID |-> "Other", Name |-> "Other Clinic", WA_Token |-> "tokB",
        WA_Phone_ID |-> "",    FB_Number |-> "ph2", BillingActive |-> TRUE],
       [OrgID |-> "Idle",  Name |-> "Idle Clinic",  WA_Token |-> "tokC",
        WA_Phone_ID |-> "ph3", FB_Number |-> "",    BillingActive |-> FALSE] >>

OrgRefs == 1..Len(OrganisationDocs)

\* The hard-coded default tenant of getOrganizationFromContext.
DefaultOrgId == "Saijyot"

Min(S) == CHOOSE x \in S : \A y \in S : x <= y

\* A query ... .limit(1).get(): the first matching document, 0 when empty.
First(S) == IF S = {} THEN 0 ELSE Min(S)

-----------------------------------------------------------------------------
(* String helpers *)

StartsWith(s, p) == Len(s) >= Len(p) /\ SubSeq(s, 1, Len(p)) = p

\* Index of the first occurrence of character c in s at or after i, else 0.
RECURSIVE IndexOf(_, _, _)
IndexOf(s, c, i) ==
    IF i > Len(s) THEN 0
    ELSE IF SubSeq(s, i, i) = c THEN i
    ELSE IndexOf(s, c, i + 1)

\* s.split(c)[1] || "": the text between the first and the second c.
SplitSecond(s, c) ==
    LET i == IndexOf(s, c, 1) IN
    IF i = 0 THEN ""
    ELSE LET j == IndexOf(s, c, i + 1) IN
         IF j = 0 THEN SubSeq(s, i + 1, Len(s)) ELSE SubSeq(s, i + 1, j - 1)

RECURSIVE TrimLeft(_)
TrimLeft(s) ==
    IF Len(s) > 0 /\ SubSeq(s, 1, 1) = " " THEN TrimLeft(Tail(s)) ELSE s

RECURSIVE TrimRight(_)
TrimRight(s) ==
    IF Len(s) > 0 /\ SubSeq(s, Len(s), Len(s)) = " "
    THEN TrimRight(SubSeq(s, 1, Len(s) - 1)) ELSE s

Trim(s) == TrimRight(TrimLeft(s))

\* A form field: undefined (falsy, like "") when the key is absent.
Field(flowData, k) == IF k \in DOMAIN flowData THEN flowData[k] ELSE ""

-----------------------------------------------------------------------------
(* The world a handler reads and writes, threaded through the operators     *)
(* below: every operator returns the world after the code it models.        *)

\* The value of process.env.ADMIN_SECRET in a deployment that sets it.
AdminSecret == "s3cret"

World ==
    [organisation |-> organisation, poc |-> poc, chat |-> chat,
     patients |-> patients, appointment |-> appointment, ticket |-> ticket,
     checkin |-> checkin, notifications |-> notifications, outbox |-> outbox,
     organizationConfigs |-> organizationConfigs, knowledgeCache |-> knowledgeCache,
     orgSettingsCache |-> orgSettingsCache, adminSecret |-> adminSecret, now |-> now]

\* db.collection("Organisation").where("OrgID", "==", id).limit(1).get()
OrgQuery(w, id) ==
    First({i \in 1..Len(w.organisation) : w.organisation[i].OrgID = id})

NullConfig ==
    [orgId |-> "", orgName |-> "", whatsappToken |-> "", whatsappPhoneId |-> "",
     billingActive |-> FALSE, orgRef |-> 0]

ConfigOf(w, id, ref) ==
    LET d == w.organisation[ref] IN
    [orgId |-> id,
     orgName |-> IF d.Name # "" THEN d.Name ELSE id,
     whatsappToken |-> d.WA_Token,
     whatsappPhoneId |-> IF d.WA_Phone_ID # "" THEN d.WA_Phone_ID ELSE d.FB_Number,
     billingActive |-> (d.BillingActive = TRUE),
     orgRef |-> ref]

\* The value loadOrganizationConfig returns (NullConfig for null).
LoadOrganizationConfig(w, id) ==
    IF id \in DOMAIN w.organizationConfigs THEN w.organizationConfigs[id]
    ELSE LET ref == OrgQuery(w, id) IN
         IF ref = 0 THEN NullConfig ELSE ConfigOf(w, id, ref)

\* The world after loadOrganizationConfig: a loaded configuration is cached.
CacheOrganizationConfig(w, id) ==
    LET c == LoadOrganizationConfig(w, id) IN
    IF id \in DOMAIN w.organizationConfigs \/ c.orgRef = 0 THEN w
    ELSE [w EXCEPT !.organizationConfigs = (id :> c) @@ @]

\* A faulty variant of getOrganizationByPhoneId: the
\* legacy field FB_Number is tried before WA_Phone_ID.
GetOrganizationByLegacyFirst(w, phoneId) ==
    LET byWa == First({i \in 1..Len(w.organisation) :
                          w.organisation[i].WA_Phone_ID = phoneId})
        byFb == First({i \in 1..Len(w.organisation) :
                          w.organisation[i].FB_Number = phoneId})
    IN IF byFb # 0 THEN w.organisation[byFb].OrgID
       ELSE IF byWa # 0 THEN w.organisation[byWa].OrgID
       ELSE ""

\* getOrganizationByPhoneId: WA_Phone_ID first, then FB_Number; "" for null.
GetOrganizationByPhoneId(w, phoneId) ==
    LET byWa == First({i \in 1..Len(w.organisation) :
                          w.organisation[i].WA_Phone_ID = phoneId})
        byFb == First({i \in 1..Len(w.organisation) :
                          w.organisation[i].FB_Number = phoneId})
    IN IF byWa # 0 THEN w.organisation[byWa].OrgID
       ELSE IF byFb # 0 THEN w.organisation[byFb].OrgID
       ELSE ""

\* getOrganizationFromContext: the tenant id of a request.
GetOrganizationFromContext(w, r) ==
    IF r.xOrganizationId # "" THEN r.xOrganizationId
    ELSE IF r.queryOrgId # "" THEN r.queryOrgId
    ELSE LET phoneId == IF r.metaPhoneNumberId # "" THEN r.metaPhoneNumberId
                        ELSE r.valuePhoneNumberId
             byPhone == IF phoneId # "" THEN GetOrganizationByPhoneId(w, phoneId)
                        ELSE ""
         IN IF byPhone # "" THEN byPhone
            ELSE IF r.msg.type # "none" /\ r.msg.contextOrganizationId # ""
                 THEN r.msg.contextOrganizationId
            ELSE IF r.metaOrganizationId # "" THEN r.metaOrganizationId
            ELSE DefaultOrgId

\* A faulty variant of getOrganisationRef:
\* the query has lost its where("OrgID", "==", id).
FirstOrganisationRef(w, id) == First(1..Len(w.organisation))

\* getOrganisationRef: the reference of the tenant's document, 0 for null.
GetOrganisationRef(w, id) == OrgQuery(w, id)

\* createNotification
CreateNotification(w, orgRef, from, message, event, pocRef, docRef) ==
    IF orgRef = 0 THEN w
    ELSE [w EXCEPT !.notifications = Append(@,
            [org |-> orgRef, from |-> from, message |-> message,
             timestamp |-> w.now, seen |-> FALSE, event |-> event,
             PoCRef |-> pocRef, docRef |-> docRef])]

\* sendWhatsAppMessage: a text message, sent with the tenant's credentials.
SendWhatsAppMessage(w, to, message, id) ==
    LET c  == LoadOrganizationConfig(w, id)
        w1 == CacheOrganizationConfig(w, id)
    IN IF c.orgRef = 0 THEN w1
       ELSE IF c.whatsappToken = "" \/ c.whatsappPhoneId = "" THEN w1
       ELSE [w1 EXCEPT !.outbox = Append(@,
                [to |-> to, type |-> "text", name |-> "", text |-> message,
                 params |-> <<>>, phoneId |-> c.whatsappPhoneId,
                 token |-> c.whatsappToken])]

\* sendWelcomeTemplate: the "welcome" template with the tenant and contact names.
SendWelcomeTemplate(w, userPhone, pocName, id) ==
    LET c  == LoadOrganizationConfig(w, id)
        w1 == CacheOrganizationConfig(w, id)
    IN IF c.orgRef = 0 THEN w1
       ELSE [w1 EXCEPT !.outbox = Append(@,
                [to |-> userPhone, type |-> "template", name |-> "welcome",
                 text |-> "", params |-> <<c.orgName, c.orgName, pocName>>,
                 phoneId |-> c.whatsappPhoneId, token |-> c.whatsappToken])]

\* updatePoCLastSeen
UpdatePoCLastSeen(w, pocRef) ==
    IF pocRef = 0 THEN w ELSE [w EXCEPT !.poc[pocRef].lastSeen = w.now]

\* A faulty variant of the Contact query:
\* the where("addedBy", "==", id) is missing, as in the single-tenant lookup.
QueryPoCByPhoneOnly(w, phone, id) ==
    First({i \in 1..Len(w.poc) : w.poc[i].Phone = phone})

\* The query of getOrCreatePoCByPhone: Phone and addedBy both equal, limit 1.
QueryPoC(w, phone, id) ==
    First({i \in 1..Len(w.poc) : w.poc[i].Phone = phone /\ w.poc[i].addedBy = id})

\* db.collection("PoC").add({...}) of getOrCreatePoCByPhone.
AddPoC(w, phone, contactName, id) ==
    [w EXCEPT !.poc = Append(@,
                [Name |-> contactName, Phone |-> phone, BotMode |-> TRUE,
                 addedBy |-> id, Created_Timestamp |-> w.now,
                 lastSeen |-> w.now, registered |-> FALSE, Gender |-> "",
                 Address |-> "", updatedAt |-> 0, messages |-> <<>>]),
              !.chat = Append(@, <<>>),
              !.patients = Append(@, <<>>)]

\* A faulty variant of getOrCreatePoCByPhone:
\* the new contact gets no welcome template.
AfterAddPoCUnwelcomed(w, newDoc, phone, contactName, id) ==
    LET w1 == CreateNotification(w, GetOrganisationRef(w, id), phone,
                  "New user " \o contactName \o " created an account",
                  "NewUser", newDoc, <<>>)
    IN [w1 EXCEPT !.patients[newDoc] = Append(@,
            [Name |-> contactName, Gender |-> "NA", Age |-> "0",
             Relation |-> "Self", createdAt |-> w1.now, updatedAt |-> 0,
             appointmentId |-> "", OrgID |-> ""])]

\* What getOrCreatePoCByPhone does after adding document newDoc: the
\* 'NewUser' notification, the welcome template and the default Patient.
AfterAddPoC(w, newDoc, phone, contactName, id) ==
    LET orgRef == GetOrganisationRef(w, id)
        w1 == CreateNotification(w, orgRef, phone,
                  "New user " \o contactName \o " created an account",
                  "NewUser", newDoc, <<>>)
        w2 == SendWelcomeTemplate(w1, phone, contactName, id)
        relationVal == IF Trim(contactName) = Trim(contactName) THEN "Self" ELSE ""
    IN [w2 EXCEPT !.patients[newDoc] = Append(@,
            [Name |-> contactName, Gender |-> "NA", Age |-> "0",
             Relation |-> relationVal, createdAt |-> w2.now, updatedAt |-> 0,
             appointmentId |-> "", OrgID |-> ""])]

\* getOrCreatePoCByPhone: the reference it returns ...
PoCRefOf(w, phone, id) ==
    LET found == QueryPoC(w, phone, id) IN
    IF found # 0 THEN found ELSE Len(w.poc) + 1

\* A faulty variant of getOrCreatePoCByPhone:
\* the Contact is added without looking for an existing one.
GetOrCreateWithoutLookup(w, phone, contactName, id) ==
    AfterAddPoC(AddPoC(w, phone, contactName, id),
                Len(w.poc) + 1, phone, contactName, id)

\* ... and the world it leaves.
GetOrCreatePoCByPhone(w, phone, contactName, id) ==
    LET found == QueryPoC(w, phone, id) IN
    IF found # 0 THEN UpdatePoCLastSeen(w, found)
    ELSE AfterAddPoC(AddPoC(w, phone, contactName, id),
                     Len(w.poc) + 1, phone, contactName, id)

\* saveChatToPoC truncates a body longer than this many characters.
TruncateAt == 300

\* A faulty variant of the truncation in saveChatToPoC:
\* a body of exactly the limit is cut too.
TruncateAtLimit(msgBody) ==
    IF Len(msgBody) >= TruncateAt
    THEN SubSeq(msgBody, 1, TruncateAt) \o "...(truncated)" ELSE msgBody

Truncate(msgBody) ==
    IF Len(msgBody) > TruncateAt
    THEN SubSeq(msgBody, 1, TruncateAt) \o "...(truncated)" ELSE msgBody

\* saveChatToPoC of the single-tenant variant: one transcript entry; the
\* contact itself is not written.
SaveChatToPoCSingleTenant(w, pocRef, direction, from, to, msgType, msgBody) ==
    [w EXCEPT !.chat[pocRef] = Append(@,
        [Direction |-> direction, From |-> from, To |-> to,
         Msg_Type |-> msgType, Msg_Body |-> Truncate(msgBody),
         Timestamp |-> w.now])]

\* saveChatToPoC: one transcript entry, then lastSeen.
SaveChatToPoC(w, pocRef, direction, from, to, msgType, msgBody) ==
    UpdatePoCLastSeen(
        [w EXCEPT !.chat[pocRef] = Append(@,
            [Direction |-> direction, From |-> from, To |-> to,
             Msg_Type |-> msgType, Msg_Body |-> Truncate(msgBody),
             Timestamp |-> w.now])],
        pocRef)

-----------------------------------------------------------------------------
(* Domain flow handlers *)

UpperCase == "ABCDEFGHIJKLMNOPQRSTUVWXYZ"
LowerCase == "abcdefghijklmnopqrstuvwxyz"

RECURSIVE ToLowerCase(_)
ToLowerCase(s) ==
    IF Len(s) = 0 THEN ""
    ELSE LET i == IndexOf(UpperCase, SubSeq(s, 1, 1), 1)
         IN (IF i = 0 THEN SubSeq(s, 1, 1) ELSE SubSeq(LowerCase, i, i))
            \o ToLowerCase(Tail(s))

\* parseYesNo / parseNumberFromLabel: the token after the first underscore.
ParseNumberFromLabel(val, fallback) ==
    IF val = "" THEN fallback
    ELSE IF IndexOf(val, "_", 1) # 0 THEN SplitSecond(val, "_")
    ELSE val

ParseYesNo(val, fallback) == ParseNumberFromLabel(val, fallback)

Digits == {"0", "1", "2", "3", "4", "5", "6", "7", "8", "9"}

\* parseStarRating: the digit of the first "(<digit>/5)" in the label.
ParseStarRating(val, fallback) ==
    LET hits == {i \in 1..Len(val) :
                    /\ i + 4 <= Len(val)
                    /\ SubSeq(val, i, i) = "("
                    /\ SubSeq(val, i + 1, i + 1) \in Digits
                    /\ SubSeq(val, i + 2, i + 4) = "/5)"}
    IN IF val = "" \/ hits = {} THEN fallback
       ELSE SubSeq(val, Min(hits) + 1, Min(hits) + 1)

\* processWelcomeFormSubmission of the variant whose notification block
\* reads pocRef.data(): pocRef is a document reference, the call throws
\* inside the try, the catch logs and returns false; the contact and the
\* patient are written by then.
ProcessWelcomeFormSubmissionVariant(w, pocRef, flowData, id) ==
    LET fullName  == Field(flowData, "screen_0_Full_Name_0")
        genderVal == Field(flowData, "screen_0_Gender_1")
        address   == Field(flowData, "screen_0_Address_3")
        gender    == IF genderVal # "" /\ SplitSecond(genderVal, "_") # ""
                     THEN SplitSecond(genderVal, "_") ELSE "NA"
        w1 == [w EXCEPT !.poc[pocRef].Name = fullName,
                        !.poc[pocRef].Gender = gender,
                        !.poc[pocRef].Address = address,
                        !.poc[pocRef].registered = TRUE,
                        !.poc[pocRef].updatedAt = w.now]
    IN IF Len(w1.patients[pocRef]) = 0 THEN w1
       ELSE [w1 EXCEPT !.patients[pocRef][1].Name = fullName,
                       !.patients[pocRef][1].Gender = gender,
                       !.patients[pocRef][1].updatedAt = w.now]

\* processWelcomeFormSubmission
ProcessWelcomeFormSubmission(w, pocRef, flowData, id) ==
    LET fullName  == Field(flowData, "screen_0_Full_Name_0")
        genderVal == Field(flowData, "screen_0_Gender_1")
        address   == Field(flowData, "screen_0_Address_3")
        gender    == IF genderVal # "" /\ SplitSecond(genderVal, "_") # ""
                     THEN SplitSecond(genderVal, "_") ELSE "NA"
        w1 == [w EXCEPT !.poc[pocRef].Name = fullName,
                        !.poc[pocRef].Gender = gender,
                        !.poc[pocRef].Address = address,
                        !.poc[pocRef].registered = TRUE,
                        !.poc[pocRef].updatedAt = w.now]
        w2 == IF Len(w1.patients[pocRef]) = 0 THEN w1
              ELSE [w1 EXCEPT !.patients[pocRef][1].Name = fullName,
                              !.patients[pocRef][1].Gender = gender,
                              !.patients[pocRef][1].updatedAt = w.now]
        orgRef == GetOrganisationRef(w2, id)
    IN CreateNotification(w2, orgRef, w2.poc[pocRef].Phone,
           "New user " \o fullName \o " completed registration",
           "Registration", pocRef, <<>>)

\* The collection "Doctors".
Doctors ==
    [d \in {"d1", "d2", "d3", "d4", "d5"} |->
        CASE d = "d1" -> [Name |-> "Dr Rao", OrgID |-> "Acme",
                          Specialization |-> <<"Cardiologist">>]
          [] d = "d2" -> [Name |-> "Dr Lee", OrgID |-> "Other",
                          Specialization |-> <<"Cardiology", "Dermatologist">>]
          [] d = "d3" -> [Name |-> "Dr Kim", OrgID |-> "Acme",
                          Specialization |-> <<"\"Neurologist\"", " Skin ">>]
          [] d = "d4" -> [Name |-> "Dr Roy", OrgID |-> "Acme",
                          Specialization |-> <<>>]
          [] OTHER    -> [Name |-> "Dr Sen", OrgID |-> "Other",
                          Specialization |-> <<"Neurologist">>]]

\* The order in which a query returns the documents of "Doctors".
DoctorIds == <<"d1", "d2", "d3", "d4", "d5">>

NoFeedback ==
    [present |-> FALSE, Recommend |-> "", Comments |-> "", Staff_Experience |-> "",
     Doctor_consultation |-> "", Overall_Experience |-> "", submittedAt |-> 0]

\* doc(id).set(d): creates the document, or replaces the one with that id.
SetDoc(coll, key, d) == [k \in DOMAIN coll \cup {key} |-> IF k = key THEN d ELSE coll[k]]

\* createAppointmentDoc throws on a missing doctorId (doc(undefined)), on an
\* undefined doctorName or patientName in the document to set, in which case
\* nothing has been written yet.
CreateAppointmentDocThrows(flowData) ==
    \/ Field(flowData, "doctorId") = ""
    \/ Field(flowData, "doctorId") \notin DOMAIN Doctors
    \/ "name" \notin DOMAIN flowData

\* A faulty variant of createAppointmentDoc:
\* the Self test compares the names as they are, untrimmed and case-sensitively.
CreateAppointmentDocExactSelf(w, pocRef, userPhone, flowData, id, idSuffix) ==
    LET orgRef      == GetOrganisationRef(w, id)
        doctorId    == Field(flowData, "doctorId")
        patientName == Field(flowData, "name")
        doctorName  == Doctors[doctorId].Name
        aptId       == <<"APT-", idSuffix>>
        aptDoc == [AppointmentID |-> aptId, PoCRef |-> pocRef,
                   userPhone |-> userPhone, doctorId |-> doctorId,
                   doctorName |-> doctorName,
                   specialty |-> Field(flowData, "specialty"),
                   timeSlot |-> Field(flowData, "time"),
                   patientName |-> patientName,
                   patientAge |-> Field(flowData, "age"),
                   patientGender |-> Field(flowData, "gender"),
                   reason |-> Field(flowData, "reason"),
                   createdAt |-> w.now, status |-> "Draft",
                   date |-> Field(flowData, "date"),
                   FlowToken |-> Field(flowData, "flow_token"),
                   OrgID |-> id, feedback |-> NoFeedback]
        w1 == [w EXCEPT !.appointment = SetDoc(@, <<orgRef, idSuffix>>, aptDoc)]
        w2 == CreateNotification(w1, orgRef, userPhone,
                  "New appointment created for " \o patientName \o " with "
                      \o doctorName \o " on " \o Field(flowData, "date")
                      \o " at " \o Field(flowData, "time"),
                  "Appointment", pocRef, <<orgRef, idSuffix>>)
        existing == {i \in 1..Len(w2.patients[pocRef]) :
                        w2.patients[pocRef][i].Name = patientName}
        isSelf == /\ w2.poc[pocRef].Name # ""
                  /\ w2.poc[pocRef].Name = patientName
    IN IF orgRef = 0 THEN w
       ELSE IF existing # {} THEN w2
       ELSE [w2 EXCEPT !.patients[pocRef] = Append(@,
                [Name |-> patientName, Gender |-> Field(flowData, "gender"),
                 Age |-> Field(flowData, "age"),
                 Relation |-> IF isSelf THEN "Self" ELSE "",
                 createdAt |-> w2.now, updatedAt |-> 0,
                 appointmentId |-> aptId, OrgID |-> id])]

\* createAppointmentDoc; idSuffix is the value generateId(8) returns.
CreateAppointmentDoc(w, pocRef, userPhone, flowData, id, idSuffix) ==
    LET orgRef      == GetOrganisationRef(w, id)
        doctorId    == Field(flowData, "doctorId")
        patientName == Field(flowData, "name")
        doctorName  == Doctors[doctorId].Name
        aptId       == <<"APT-", idSuffix>>
        aptDoc == [AppointmentID |-> aptId, PoCRef |-> pocRef,
                   userPhone |-> userPhone, doctorId |-> doctorId,
                   doctorName |-> doctorName,
                   specialty |-> Field(flowData, "specialty"),
                   timeSlot |-> Field(flowData, "time"),
                   patientName |-> patientName,
                   patientAge |-> Field(flowData, "age"),
                   patientGender |-> Field(flowData, "gender"),
                   reason |-> Field(flowData, "reason"),
                   createdAt |-> w.now, status |-> "Draft",
                   date |-> Field(flowData, "date"),
                   FlowToken |-> Field(flowData, "flow_token"),
                   OrgID |-> id, feedback |-> NoFeedback]
        w1 == [w EXCEPT !.appointment = SetDoc(@, <<orgRef, idSuffix>>, aptDoc)]
        w2 == CreateNotification(w1, orgRef, userPhone,
                  "New appointment created for " \o patientName \o " with "
                      \o doctorName \o " on " \o Field(flowData, "date")
                      \o " at " \o Field(flowData, "time"),
                  "Appointment", pocRef, <<orgRef, idSuffix>>)
        existing == {i \in 1..Len(w2.patients[pocRef]) :
                        w2.patients[pocRef][i].Name = patientName}
        isSelf == /\ w2.poc[pocRef].Name # ""
                  /\ ToLowerCase(Trim(w2.poc[pocRef].Name))
                        = ToLowerCase(Trim(patientName))
    IN IF orgRef = 0 THEN w
       ELSE IF existing # {} THEN w2
       ELSE [w2 EXCEPT !.patients[pocRef] = Append(@,
                [Name |-> patientName, Gender |-> Field(flowData, "gender"),
                 Age |-> Field(flowData, "age"),
                 Relation |-> IF isSelf THEN "Self" ELSE "",
                 createdAt |-> w2.now, updatedAt |-> 0,
                 appointmentId |-> aptId, OrgID |-> id])]

\* createSupportTicket; idSuffix is the value generateId(8) returns.
CreateSupportTicket(w, pocRef, flowData, id, idSuffix) ==
    LET orgRef   == GetOrganisationRef(w, id)
        urgency  == ParseNumberFromLabel(Field(flowData, "screen_0_Urgency_1"), "Low")
        category == ParseNumberFromLabel(Field(flowData, "screen_0_Category_0"), "General")
        doc == [TicketID |-> <<"TIC-", idSuffix>>, PoCRef |-> pocRef,
                description |-> Field(flowData, "screen_0_Description_of_issue_2"),
                urgency |-> urgency, category |-> category, status |-> "open",
                createdAt |-> w.now, OrgID |-> id]
        w1 == [w EXCEPT !.ticket = SetDoc(@, <<orgRef, idSuffix>>, doc)]
        userPhone == IF w1.poc[pocRef].Phone # "" THEN w1.poc[pocRef].Phone ELSE "Unknown"
        userName  == IF w1.poc[pocRef].Name # "" THEN w1.poc[pocRef].Name ELSE "User"
    IN IF orgRef = 0 THEN w
       ELSE CreateNotification(w1, orgRef, userPhone,
                "New support ticket created by " \o userName \o " with " \o urgency
                    \o " urgency in the " \o category \o " category",
                "Ticket", pocRef, <<orgRef, idSuffix>>)

\* createCheckinDoc; idSuffix is the value generateId(8) returns.
CreateCheckinDoc(w, pocRef, userPhone, id, idSuffix) ==
    LET orgRef   == GetOrganisationRef(w, id)
        userName == IF w.poc[pocRef].Name # "" THEN w.poc[pocRef].Name ELSE "User"
        doc == [CheckinID |-> <<"CHK-", idSuffix>>, PoCRef |-> pocRef,
                phone |-> userPhone, checkinTime |-> w.now, OrgID |-> id]
        w1 == [w EXCEPT !.checkin = SetDoc(@, <<orgRef, idSuffix>>, doc)]
    IN IF orgRef = 0 THEN w
       ELSE CreateNotification(w1, orgRef, userPhone,
                userName \o " just checked in at the facility",
                "Checkin", pocRef, <<orgRef, idSuffix>>)

\* The Appointment query of updateAppointmentFeedback: the documents of the
\* tenant's sub-collection whose FlowToken equals flowToken, limit 1 (in
\* document-id order); <<>> when empty.
QueryAppointmentByFlowToken(w, orgRef, flowToken) ==
    LET hits == {k \in DOMAIN w.appointment :
                    k[1] = orgRef /\ w.appointment[k].FlowToken = flowToken}
    IN IF hits = {} THEN <<>>
       ELSE CHOOSE k \in hits : \A h \in hits : k[2] <= h[2]

\* updateAppointmentFeedback
UpdateAppointmentFeedback(w, flowData, id) ==
    LET flowToken  == Field(flowData, "flow_token")
        recommend  == ParseYesNo(Field(flowData, "screen_0_Choose_0"), "No")
        comments   == Field(flowData, "screen_0_Leave_a_1")
        staffExp   == ParseStarRating(Field(flowData, "screen_1_Staff_Experience_0"), "NA")
        docConsult == ParseStarRating(Field(flowData, "screen_1_Doctor_consultation_1"), "NA")
        overallExp == ParseStarRating(Field(flowData, "screen_1_Overall_Experience_2"), "NA")
        orgRef     == GetOrganisationRef(w, id)
        aptRef     == QueryAppointmentByFlowToken(w, orgRef, flowToken)
        aptDoc     == w.appointment[aptRef]
        feedback == [present |-> TRUE, Recommend |-> recommend, Comments |-> comments,
                     Staff_Experience |-> staffExp, Doctor_consultation |-> docConsult,
                     Overall_Experience |-> overallExp, submittedAt |-> w.now]
        w1 == [w EXCEPT !.appointment[aptRef].feedback = feedback]
    IN IF orgRef = 0 THEN w
       ELSE IF aptRef = <<>> THEN w
       ELSE CreateNotification(w1, orgRef,
                IF aptDoc.userPhone # "" THEN aptDoc.userPhone ELSE "Unknown",
                "Feedback received for appointment with "
                    \o (IF aptDoc.doctorName # "" THEN aptDoc.doctorName ELSE "Unknown")
                    \o ". Overall rating: "
                    \o (IF overallExp # "NA" THEN overallExp \o "/5" ELSE "N/A"),
                "Feedback", aptDoc.PoCRef, aptRef)

-----------------------------------------------------------------------------
(* Intent router *)

\* sendAppointmentFlow; flowTok is the value generateFlowToken(6) returns.
SendAppointmentFlow(w, userPhone, id, flowTok) ==
    LET c  == LoadOrganizationConfig(w, id)
        w1 == CacheOrganizationConfig(w, id)
    IN IF c.orgRef = 0 THEN w1
       ELSE [w1 EXCEPT !.outbox = Append(@,
                [to |-> userPhone, type |-> "interactive", name |-> "Appointment",
                 text |-> "Please fill out this form to schedule your new appointment.",
                 params |-> <<c.orgName, flowTok>>,
                 phoneId |-> c.whatsappPhoneId, token |-> c.whatsappToken])]

\* sendSupportTemplate
SendSupportTemplate(w, userPhone, id) ==
    LET c  == LoadOrganizationConfig(w, id)
        w1 == CacheOrganizationConfig(w, id)
    IN IF c.orgRef = 0 THEN w1
       ELSE [w1 EXCEPT !.outbox = Append(@,
                [to |-> userPhone, type |-> "template", name |-> "support",
                 text |-> "", params |-> <<c.orgName>>,
                 phoneId |-> c.whatsappPhoneId, token |-> c.whatsappToken])]

\* smallTalkImpl
SmallTalkImpl(id, c) ==
    "Hello! " \o (IF c.orgName # "" THEN c.orgName ELSE id)
        \o " is here to help. How can we assist you today?"

\* handleOpenAiFunctionCall + handleLocalFunctionCall: the reply text.  fc is
\* the function call the LLM chose: its name, whether its arguments string
\* parses, the one argument, and (for knowledge_lookup and symptom_assessment,
\* which write nothing to the store) the text those handlers compute.
FunctionCallReply(w, fc, id) ==
    LET c == LoadOrganizationConfig(w, id) IN
    IF ~fc.argsOk THEN "Error parsing function arguments."
    ELSE CASE fc.name = "appointment_flow" ->
                (CASE fc.arg = "new" -> "Appointment form sent."
                   [] fc.arg = "reschedule" -> "Rescheduling placeholder. Not implemented."
                   [] fc.arg = "cancel" -> "Cancellation placeholder. Not implemented."
                   [] OTHER -> "Unknown appointment action => new, reschedule, cancel only.")
           [] fc.name = "support_flow" -> "Support form sent."
           [] fc.name = "knowledge_lookup" -> fc.result
           [] fc.name = "small_talk" -> SmallTalkImpl(id, c)
           [] fc.name = "symptom_assessment" -> fc.result
           [] OTHER -> "Kindly only ask anything related to "
                          \o (IF c.orgName # "" THEN c.orgName ELSE id) \o "."

\* A faulty variant of handleOpenAiFunctionCall:
\* the handler is dispatched although the arguments did not parse.
FunctionCallDispatchUnparsed(w, fc, fromPhone, id, flowTok) ==
    LET w1 == CacheOrganizationConfig(w, id) IN
    IF fc.name = "appointment_flow"
    THEN SendAppointmentFlow(w1, fromPhone, id, flowTok)
    ELSE IF fc.name = "support_flow" THEN SendSupportTemplate(w1, fromPhone, id)
    ELSE w1

\* ... and the world they leave.
FunctionCallEffect(w, fc, fromPhone, id, flowTok) ==
    LET w1 == CacheOrganizationConfig(w, id) IN
    IF ~fc.argsOk THEN w
    ELSE IF fc.name = "appointment_flow" /\ fc.arg = "new"
         THEN SendAppointmentFlow(w1, fromPhone, id, flowTok)
    ELSE IF fc.name = "support_flow" THEN SendSupportTemplate(w1, fromPhone, id)
    ELSE w1

\* getSystemMessage
GetSystemMessage(c) ==
    [role |-> "system",
     content |-> "You are " \o c.orgName \o "'s Chatbot in English."]

\* A faulty variant of the seeding of the turn list:
\* the system turn is put in front whether or not the list has one.
MessagesAlwaysSeeded(stored, c, userText) ==
    Append(<<GetSystemMessage(c)>> \o stored, [role |-> "user", content |-> userText])

\* The turn list sent to the LLM: the stored one, seeded with the system turn
\* when it has none, plus the user turn.
MessagesWithUserTurn(stored, c, userText) ==
    LET seeded == IF \E i \in 1..Len(stored) : stored[i].role = "system"
                  THEN stored ELSE <<GetSystemMessage(c)>> \o stored
    IN Append(seeded, [role |-> "user", content |-> userText])

\* JSON.parse(reply).reply when reply is an object {"reply": "..."}.
ReplyPrefix == "{\"reply\":\""
ReplySuffix == "\"}"

\* A faulty variant of the reply unwrapping:
\* an empty reply field is used too.
FinalReplyAnyField(reply) ==
    IF /\ StartsWith(reply, ReplyPrefix)
       /\ Len(reply) >= Len(ReplyPrefix) + Len(ReplySuffix)
       /\ SubSeq(reply, Len(reply) - Len(ReplySuffix) + 1, Len(reply)) = ReplySuffix
    THEN SubSeq(reply, Len(ReplyPrefix) + 1, Len(reply) - Len(ReplySuffix))
    ELSE reply

\* let finalReply = reply; try { p = JSON.parse(reply); if (p && p.reply) ... }
FinalReply(reply) ==
    IF /\ StartsWith(reply, ReplyPrefix)
       /\ Len(reply) > Len(ReplyPrefix) + Len(ReplySuffix)
       /\ SubSeq(reply, Len(reply) - Len(ReplySuffix) + 1, Len(reply)) = ReplySuffix
    THEN SubSeq(reply, Len(ReplyPrefix) + 1, Len(reply) - Len(ReplySuffix))
    ELSE reply

-----------------------------------------------------------------------------
(* POST /webhook *)

\* What a handler leaves: the world and the HTTP status it answers.
Done(w, status) == [w |-> w, status |-> status]

\* The keys of the forms, in the order JSON.stringify writes them here.
FormKeys ==
    <<"flow_token", "doctorId", "name", "date", "time",
      "screen_0_Full_Name_0", "screen_0_Gender_1", "screen_0_Address_3",
      "screen_0_Choose_0", "screen_0_Leave_a_1", "screen_1_Overall_Experience_2",
      "screen_0_Description_of_issue_2", "screen_0_Urgency_1", "screen_0_Category_0">>

RECURSIVE StringifyFrom(_, _, _)
StringifyFrom(flowData, i, first) ==
    IF i > Len(FormKeys) THEN "}"
    ELSE IF FormKeys[i] \notin DOMAIN flowData THEN StringifyFrom(flowData, i + 1, first)
    ELSE (IF first THEN "" ELSE ",") \o "\"" \o FormKeys[i] \o "\":\""
            \o flowData[FormKeys[i]] \o "\"" \o StringifyFrom(flowData, i + 1, FALSE)

\* JSON.stringify(flowData)
Stringify(flowData) == "{" \o StringifyFrom(flowData, 1, TRUE)

\* A faulty variant of the nfm_reply branch:
\* the Contact is looked up or created before response_json is parsed.
InteractiveBranchParsedLate(w, r, e, id, c) ==
    LET m        == r.msg
        flowData == m.flowData
        pocRef   == PoCRefOf(w, m.from, id)
        w1 == GetOrCreatePoCByPhone(w, m.from, m.contactName, id)
        w2 == SaveChatToPoC(w1, pocRef, "inbound", m.from, c.whatsappPhoneId,
                            "interactive", Truncate(Stringify(flowData)))
        Ack(wa, text) ==
            Done(SaveChatToPoC(SendWhatsAppMessage(wa, m.from, text, id), pocRef,
                               "outbound", c.whatsappPhoneId, m.from, "text", text),
                 200)
    IN IF ~m.jsonOk THEN Done(w1, 500)
       ELSE IF Field(flowData, "screen_0_Full_Name_0") # ""
       THEN Ack(ProcessWelcomeFormSubmission(w2, pocRef, flowData, id),
                "Thank you for completing your registration! You can now use our services.")
       ELSE IF Field(flowData, "screen_0_Choose_0") # ""
       THEN Ack(UpdateAppointmentFeedback(w2, flowData, id),
                "Thank you for your feedback!")
       ELSE IF Field(flowData, "screen_0_Description_of_issue_2") # ""
       THEN Ack(CreateSupportTicket(w2, pocRef, flowData, id, e.idSuffix),
                "We have created your support ticket. Thank you!")
       ELSE IF GetOrganisationRef(w2, id) # 0 /\ CreateAppointmentDocThrows(flowData)
       THEN Done(w2, 500)
       ELSE Ack(CreateAppointmentDoc(w2, pocRef, m.from, flowData, id, e.idSuffix),
                "Your appointment has been recorded. Thank you!")

\* A) an interactive nfm_reply: registration, feedback, support or appointment.
InteractiveBranch(w, r, e, id, c) ==
    LET m        == r.msg
        flowData == m.flowData
        pocRef   == PoCRefOf(w, m.from, id)
        w1 == GetOrCreatePoCByPhone(w, m.from, m.contactName, id)
        w2 == SaveChatToPoC(w1, pocRef, "inbound", m.from, c.whatsappPhoneId,
                            "interactive", Truncate(Stringify(flowData)))
        Ack(wa, text) ==
            Done(SaveChatToPoC(SendWhatsAppMessage(wa, m.from, text, id), pocRef,
                               "outbound", c.whatsappPhoneId, m.from, "text", text),
                 200)
    IN IF ~m.jsonOk THEN Done(w, 500)
       ELSE IF Field(flowData, "screen_0_Full_Name_0") # ""
       THEN Ack(ProcessWelcomeFormSubmission(w2, pocRef, flowData, id),
                "Thank you for completing your registration! You can now use our services.")
       ELSE IF Field(flowData, "screen_0_Choose_0") # ""
       THEN Ack(UpdateAppointmentFeedback(w2, flowData, id),
                "Thank you for your feedback!")
       ELSE IF Field(flowData, "screen_0_Description_of_issue_2") # ""
       THEN Ack(CreateSupportTicket(w2, pocRef, flowData, id, e.idSuffix),
                "We have created your support ticket. Thank you!")
       ELSE IF GetOrganisationRef(w2, id) # 0 /\ CreateAppointmentDocThrows(flowData)
       THEN Done(w2, 500)
       ELSE Ack(CreateAppointmentDoc(w2, pocRef, m.from, flowData, id, e.idSuffix),
                "Your appointment has been recorded. Thank you!")

MediaTypes == {"image", "video", "audio", "document"}

MediaTypeMap(type) ==
    CASE type = "image" -> "an image"
      [] type = "video" -> "a video"
      [] type = "audio" -> "an audio message"
      [] type = "document" -> "a document"
      [] OTHER -> "a media file"

\* B) media: the transcript entry with the public link, and a notification.
\* e.publicUrl is what downloadWhatsAppMediaAndUpload returns ("" for null).
MediaBranch(w, r, e, id, c, pocRef) ==
    LET m == r.msg
        publicUrl == IF e.publicUrl = "" THEN "Failed to retrieve media from WA."
                     ELSE e.publicUrl
        msgType == IF m.type = "document"
                   THEN (IF m.mimePdf THEN "pdf" ELSE "doc") ELSE m.type
        body == IF m.type = "image" THEN "User sent an image" ELSE publicUrl
        w1 == SaveChatToPoC(w, pocRef, "inbound", m.from, c.whatsappPhoneId,
                            msgType, body)
        orgRef == GetOrganisationRef(w1, id)
        userName == IF w1.poc[pocRef].Name # "" THEN w1.poc[pocRef].Name ELSE "User"
    IN Done(CreateNotification(w1, orgRef, m.from,
                userName \o " sent " \o MediaTypeMap(m.type),
                "Message", pocRef, <<>>),
            200)

\* The inbound transcript entry of a text and its 'Message' notification.
TextInbound(w, r, id, c, pocRef) ==
    LET m  == r.msg
        w1 == SaveChatToPoC(w, pocRef, "inbound", m.from, c.whatsappPhoneId,
                            "text", m.text)
        orgRef == GetOrganisationRef(w1, id)
        userName == IF w1.poc[pocRef].Name # "" THEN w1.poc[pocRef].Name ELSE "User"
    IN IF ~StartsWith(m.text, "Checkin:") /\ Len(m.text) > 10
       THEN CreateNotification(w1, orgRef, m.from,
                "New message from " \o userName \o ": \""
                    \o (IF Len(m.text) > 30 THEN SubSeq(m.text, 1, 30) \o "..."
                        ELSE m.text) \o "\"",
                "Message", pocRef, <<>>)
       ELSE w1

\* A faulty variant of the Checkin command test: the whole text after the
\* prefix is compared, untrimmed.
IsCheckinExact(userText, id) ==
    StartsWith(userText, "Checkin:") /\ SubSeq(userText, 9, Len(userText)) = id

\* "Checkin:<tenant id>"
IsCheckin(userText, id) ==
    StartsWith(userText, "Checkin:") /\ Trim(SplitSecond(userText, ":")) = id

CheckinBranch(w, r, e, id, c, pocRef) ==
    LET m  == r.msg
        checkAck == "Welcome to " \o c.orgName \o "! Check-in recorded. Please proceed!"
        w1 == CreateCheckinDoc(w, pocRef, m.from, id, e.idSuffix)
        w2 == SendWhatsAppMessage(w1, m.from, checkAck, id)
    IN Done(SaveChatToPoC(w2, pocRef, "outbound", c.whatsappPhoneId, m.from,
                          "text", checkAck),
            200)

\* The reply of the LLM round: the chosen handler's text or the free text.
LlmReply(w, llm, id) ==
    IF llm.kind = "function_call" THEN FunctionCallReply(w, llm, id) ELSE llm.content

\* pocRef.set({ chatState: { messages } }, { merge: true })
SetChatState(w, pocRef, messages) == [w EXCEPT !.poc[pocRef].messages = messages]

\* The LLM has answered: dispatch the chosen handler, append the assistant
\* turn and persist the turn list.  messages is the turn list built from what
\* pocRef.get() returned.
LlmRound(w, r, e, id, pocRef, messages) ==
    LET w1 == IF e.llm.kind = "function_call"
              THEN FunctionCallEffect(w, e.llm, r.msg.from, id, e.flowTok) ELSE w
    IN SetChatState(w1, pocRef,
           Append(messages, [role |-> "assistant", content |-> LlmReply(w, e.llm, id)]))

\* The reply goes out and into the transcript.
SendReply(w, r, id, c, pocRef, reply) ==
    SaveChatToPoC(SendWhatsAppMessage(w, r.msg.from, FinalReply(reply), id), pocRef,
                  "outbound", c.whatsappPhoneId, r.msg.from, "text", FinalReply(reply))

\* From the LLM's answer on.
AfterLlm(w, r, e, id, c, pocRef, messages) ==
    IF e.llm.kind = "throw" THEN Done(w, 500)
    ELSE IF e.llm.kind = "nochoice" THEN Done(w, 200)
    ELSE Done(SendReply(LlmRound(w, r, e, id, pocRef, messages), r, id, c, pocRef,
                        LlmReply(w, e.llm, id)),
              200)

\* A faulty variant of the text branch:
\* BotMode is not read, every other text goes to the LLM round.
TextBranchBotAlways(w, r, e, id, c, pocRef) ==
    LET m  == r.msg
        w1 == TextInbound(w, r, id, c, pocRef)
    IN IF IsCheckin(m.text, id) THEN CheckinBranch(w1, r, e, id, c, pocRef)
       ELSE AfterLlm(w1, r, e, id, c, pocRef,
                     MessagesWithUserTurn(w1.poc[pocRef].messages, c, m.text))

\* B) text: check-in command, else (BotMode) the LLM round.
TextBranch(w, r, e, id, c, pocRef) ==
    LET m  == r.msg
        w1 == TextInbound(w, r, id, c, pocRef)
    IN IF IsCheckin(m.text, id) THEN CheckinBranch(w1, r, e, id, c, pocRef)
       ELSE IF w1.poc[pocRef].BotMode = FALSE THEN Done(w1, 200)
       ELSE AfterLlm(w1, r, e, id, c, pocRef,
                     MessagesWithUserTurn(w1.poc[pocRef].messages, c, m.text))

\* A faulty variant of app.post("/webhook"):
\* billingActive is not tested.
HandleWebhookUnbilled(w, r, e) ==
    LET id == GetOrganizationFromContext(w, r)
        c  == LoadOrganizationConfig(w, id)
        w1 == CacheOrganizationConfig(w, id)
        m  == r.msg
        pocRef == PoCRefOf(w1, m.from, id)
        w2 == GetOrCreatePoCByPhone(w1, m.from, m.contactName, id)
    IN IF r.object = "" THEN Done(w, 404)
       ELSE IF c.orgRef = 0 THEN Done(w1, 404)
       ELSE IF m.type = "interactive" /\ m.nfmReply
            THEN InteractiveBranch(w1, r, e, id, c)
       ELSE IF m.type = "none" THEN Done(w1, 200)
       ELSE IF m.type \in MediaTypes THEN MediaBranch(w2, r, e, id, c, pocRef)
       ELSE IF m.type = "text" THEN TextBranch(w2, r, e, id, c, pocRef)
       ELSE Done(w2, 200)

\* app.post("/webhook"): r is the request, e what the environment answers
\* during the handling (generated ids, the LLM, the media upload).
HandleWebhook(w, r, e) ==
    LET id == GetOrganizationFromContext(w, r)
        c  == LoadOrganizationConfig(w, id)
        w1 == CacheOrganizationConfig(w, id)
        m  == r.msg
        pocRef == PoCRefOf(w1, m.from, id)
        w2 == GetOrCreatePoCByPhone(w1, m.from, m.contactName, id)
    IN IF r.object = "" THEN Done(w, 404)
       ELSE IF c.orgRef = 0 THEN Done(w1, 404)
       ELSE IF ~c.billingActive THEN Done(w1, 200)
       ELSE IF m.type = "interactive" /\ m.nfmReply
            THEN InteractiveBranch(w1, r, e, id, c)
       ELSE IF m.type = "none" THEN Done(w1, 200)
       ELSE IF m.type \in MediaTypes THEN MediaBranch(w2, r, e, id, c, pocRef)
       ELSE IF m.type = "text" THEN TextBranch(w2, r, e, id, c, pocRef)
       ELSE Done(w2, 200)

-----------------------------------------------------------------------------
(* Deliveries: the requests and environment answers the model draws from.   *)

NoMsg ==
    [type |-> "none", nfmReply |-> FALSE, from |-> "", contactName |-> "Unknown",
     contextOrganizationId |-> "", text |-> "", jsonOk |-> TRUE,
     flowData |-> <<>>, mimePdf |-> FALSE]

\* A request with no tenant hint and no message.
BaseRequest ==
    [object |-> "whatsapp_business_account", xOrganizationId |-> "",
     queryOrgId |-> "", metaPhoneNumberId |-> "", valuePhoneNumberId |-> "",
     metaOrganizationId |-> "", msg |-> NoMsg]

\* value.contacts[0].profile.name of a sender.
ProfileName(phone) == IF phone = "p1" THEN "Ann" ELSE "Bob"

TextMsg(phone, text) ==
    [NoMsg EXCEPT !.type = "text", !.from = phone,
                  !.contactName = ProfileName(phone), !.text = text]

FormMsg(phone, flowData) ==
    [NoMsg EXCEPT !.type = "interactive", !.nfmReply = TRUE, !.from = phone,
                  !.contactName = ProfileName(phone), !.flowData = flowData]

MediaMsg(phone, type) ==
    [NoMsg EXCEPT !.type = type, !.from = phone, !.contactName = ProfileName(phone)]

RegistrationForm ==
    [k \in {"screen_0_Full_Name_0", "screen_0_Gender_1"} |->
        IF k = "screen_0_Full_Name_0" THEN "Ann B" ELSE "0_Female"]

FeedbackForm(tok) ==
    [k \in {"screen_0_Choose_0", "screen_1_Overall_Experience_2"}
            \cup (IF tok = "" THEN {} ELSE {"flow_token"}) |->
        CASE k = "screen_0_Choose_0" -> "0_Yes"
          [] k = "screen_1_Overall_Experience_2" -> "Good (4/5)"
          [] OTHER -> tok]

SupportForm ==
    [k \in {"screen_0_Description_of_issue_2", "screen_0_Urgency_1",
            "screen_0_Category_0"} |->
        CASE k = "screen_0_Description_of_issue_2" -> "Portal down"
          [] k = "screen_0_Urgency_1" -> "1_High"
          [] OTHER -> "0_Billing"]

AppointmentForm(tok, name) ==
    [k \in {"doctorId", "name", "date", "time"}
            \cup (IF tok = "" THEN {} ELSE {"flow_token"}) |->
        CASE k = "doctorId" -> "d1"
          [] k = "name" -> name
          [] k = "date" -> "2025-01-02"
          [] k = "time" -> "10:00"
          [] OTHER -> tok]

\* Flow tokens: the one sendAppointmentFlow generated, and none.
FlowToken1 == "123456"

Texts == {"Checkin:Acme", "hi", "I need help now"}

\* Tenant hints of the deliveries: Acme by header, Other by the phone-number-id
\* (its FB_Number), the inactive Idle, a tenant with no document, and none.
ForAcme  == [BaseRequest EXCEPT !.xOrganizationId = "Acme"]
ForOther == [BaseRequest EXCEPT !.metaPhoneNumberId = "ph2"]
ForIdle  == [BaseRequest EXCEPT !.metaPhoneNumberId = "ph3"]
ForGhost == [BaseRequest EXCEPT !.queryOrgId = "Ghost"]

\* Deliveries the handler drops before looking at the message.
DroppedRequests ==
    {[h EXCEPT !.msg = TextMsg("p1", "hi")] : h \in {ForIdle, ForGhost, BaseRequest}}
        \cup {[ForAcme EXCEPT !.object = ""]}

\* Form replies: every flow for Acme, and for Other the flows whose records
\* Acme also has.
InteractiveRequests ==
    {[ForAcme EXCEPT !.msg = FormMsg("p1", f)] :
        f \in {RegistrationForm, FeedbackForm(FlowToken1), FeedbackForm(""),
               SupportForm, AppointmentForm(FlowToken1, "Ann"),
               AppointmentForm("", "Tom")}}
      \cup {[ForAcme EXCEPT !.msg = [FormMsg("p1", <<>>) EXCEPT !.jsonOk = FALSE]]}
      \cup {[ForOther EXCEPT !.msg = FormMsg("p1", f)] :
               f \in {RegistrationForm, FeedbackForm(FlowToken1),
                      AppointmentForm(FlowToken1, "Ann")}}

TextRequests ==
    {[ForAcme EXCEPT !.msg = TextMsg("p1", t)] : t \in Texts}
      \cup {[ForAcme EXCEPT !.msg = TextMsg("p2", "hi")]}
      \cup {[ForOther EXCEPT !.msg = TextMsg("p1", t)] : t \in {"Checkin:Acme", "hi"}}

MediaRequests == {[ForAcme EXCEPT !.msg = MediaMsg("p1", "image")]}

\* What the LLM answers.
LlmContent(text) ==
    [kind |-> "content", content |-> text, name |-> "", argsOk |-> TRUE,
     arg |-> "", result |-> ""]

LlmFunctionCall(name, arg) ==
    [kind |-> "function_call", content |-> "", name |-> name, argsOk |-> TRUE,
     arg |-> arg, result |-> ""]

LlmThrows == [LlmContent("") EXCEPT !.kind = "throw"]

LlmOutcomes == {LlmContent("Sure."), LlmFunctionCall("appointment_flow", "new"), LlmThrows}

\* Values generateId(8) may return.
IdSuffixes == {1, 2}

\* An environment that is not consulted.
NoEnv == [idSuffix |-> 1, flowTok |-> FlowToken1, llm |-> LlmContent("Sure."),
          publicUrl |-> "https://storage/x"]

\* The environment answers a delivery can see.
EnvFor(r) ==
    IF r.msg.type = "interactive" /\ Field(r.msg.flowData, "doctorId") # ""
          /\ Field(r.msg.flowData, "flow_token") # "" /\ r.xOrganizationId # ""
    THEN {[NoEnv EXCEPT !.idSuffix = n] : n \in IdSuffixes}
    ELSE IF r.msg.type = "text" /\ r.msg.text = "hi" /\ r.msg.from = "p1"
               /\ r.xOrganizationId # ""
    THEN {[NoEnv EXCEPT !.llm = l] : l \in LlmOutcomes}
    ELSE {NoEnv}

-----------------------------------------------------------------------------
(* Spec: deliveries handled one at a time.                                   *)

NoHandlers == <<>>

Init ==
    /\ organisation = OrganisationDocs
    /\ poc = <<>>
    /\ chat = <<>>
    /\ patients = <<>>
    /\ appointment = <<>>
    /\ ticket = <<>>
    /\ checkin = <<>>
    /\ notifications = <<>>
    /\ outbox = <<>>
    /\ organizationConfigs = <<>>
    /\ knowledgeCache = <<>>
    /\ orgSettingsCache = <<>>
    /\ adminSecret = AdminSecret
    /\ now = 0
    /\ req = BaseRequest
    /\ orgId = ""
    /\ res = 0
    /\ handlers = NoHandlers

\* The variables take the world's values.
SetWorld(w) ==
    /\ organisation' = w.organisation
    /\ poc' = w.poc
    /\ chat' = w.chat
    /\ patients' = w.patients
    /\ appointment' = w.appointment
    /\ ticket' = w.ticket
    /\ checkin' = w.checkin
    /\ notifications' = w.notifications
    /\ outbox' = w.outbox
    /\ organizationConfigs' = w.organizationConfigs
    /\ knowledgeCache' = w.knowledgeCache
    /\ orgSettingsCache' = w.orgSettingsCache
    /\ adminSecret' = w.adminSecret

\* One delivery to POST /webhook, handled to its response.
PostWebhook(r, e) ==
    /\ now < MaxEvents
    /\ \E out \in {HandleWebhook([World EXCEPT !.now = now + 1], r, e)} :
          /\ SetWorld(out.w)
          /\ now' = now + 1
          /\ req' = r
          /\ orgId' = GetOrganizationFromContext(World, r)
          /\ res' = out.status
    /\ UNCHANGED handlers

\* A delivery that is dropped before the message is looked at.
DeliverDropped ==
    \E r \in DroppedRequests :
        /\ PostWebhook(r, NoEnv)
        /\ res' \in {200, 404}

\* A form reply (interactive / nfm_reply).
DeliverInteractive ==
    \E r \in InteractiveRequests : \E e \in EnvFor(r) :
        /\ r.msg.nfmReply
        /\ PostWebhook(r, e)

\* A text message.
DeliverText ==
    \E r \in TextRequests : \E e \in EnvFor(r) :
        /\ r.msg.type = "text"
        /\ PostWebhook(r, e)

\* An image, video, audio or document message.
DeliverMedia ==
    \E r \in MediaRequests :
        /\ r.msg.type \in MediaTypes
        /\ PostWebhook(r, NoEnv)

Next ==
    \/ DeliverDropped
    \/ DeliverInteractive
    \/ DeliverText
    \/ DeliverMedia

Spec == Init /\ [][Next]_vars

-----------------------------------------------------------------------------
(* Properties of Spec *)

Tenants == {"Acme", "Other"}

\* The contacts of a (phone, tenant) pair.
ContactsOf(phone, id) ==
    {i \in 1..Len(poc) : poc[i].Phone = phone /\ poc[i].addedBy = id}

\* C3: in every reachable state, calling getOrCreatePoCByPhone twice in
\* succession with the same phone and tenant returns the same reference both
\* times, and the second call creates no Contact, no Patient, no notification
\* and sends nothing: it changes only that contact's lastSeen.
C3_GetOrCreateTwice ==
    \A p \in {"p1", "p2"}, id \in Tenants :
        LET w0 == [World EXCEPT !.now = now + 1]
            r1 == PoCRefOf(w0, p, id)
            w1 == [GetOrCreatePoCByPhone(w0, p, ProfileName(p), id)
                      EXCEPT !.now = now + 2]
            r2 == PoCRefOf(w1, p, id)
            w2 == GetOrCreatePoCByPhone(w1, p, ProfileName(p), id)
        IN /\ r2 = r1
           /\ Len(w2.poc) = Len(w1.poc)
           /\ w2.patients = w1.patients
           /\ w2.notifications = w1.notifications
           /\ w2.outbox = w1.outbox
           /\ w2 = [w1 EXCEPT !.poc[r1].lastSeen = now + 2]

\* A contact found again by a later delivery: one record, lastSeen moved on.
C3_Witness ==
    \E i \in 1..Len(poc) :
        /\ poc[i].lastSeen > poc[i].Created_Timestamp
        /\ ContactsOf(poc[i].Phone, poc[i].addedBy) = {i}
        /\ Len(patients[i]) = 1

\* C4: a delivery touches (creates, or changes the fields, transcript, turn
\* history or patients of) no Contact other than the one of its sender under
\* the tenant resolved for it; so the same phone under two tenants has two
\* Contacts, and what is written for one never changes the other.
C4_TenantsIndependent ==
    [][/\ \A i \in 1..Len(poc') :
             (\/ i > Len(poc)
              \/ poc'[i] # poc[i]
              \/ chat'[i] # chat[i]
              \/ patients'[i] # patients[i])
             => /\ poc'[i].addedBy = orgId'
                /\ poc'[i].Phone = req'.msg.from
                /\ \A j \in 1..Len(poc') :
                      (poc'[j].Phone = poc'[i].Phone /\ poc'[j].addedBy = orgId')
                      => j = i
       /\ (res' = 200 /\ req'.msg.type # "none" /\ orgId' \in Tenants)
             => \E i \in 1..Len(poc') :
                   poc'[i].Phone = req'.msg.from /\ poc'[i].addedBy = orgId'
      ]_vars

\* One phone with a Contact under each tenant, registered under one only, and
\* a turn history under the other.
C4_Witness ==
    \E i, j \in 1..Len(poc) :
        /\ poc[i].Phone = poc[j].Phone
        /\ poc[i].addedBy = "Acme" /\ poc[j].addedBy = "Other"
        /\ poc[i].registered /\ ~poc[j].registered
        /\ poc[i].messages = <<>> /\ poc[j].messages # <<>>

\* C5: every Appointment, Ticket, Check-in and Notification a delivery creates
\* or changes lies under the document of the tenant resolved for it and (the
\* first three) carries that tenant id as OrgID; a Contact it creates carries
\* it as addedBy; records of other organizations are left as they were.
C5_RecordsScoped ==
    [][LET orgRef == OrgQuery(World, orgId')
           Scoped(coll, collNext) ==
               \A k \in DOMAIN collNext :
                   (k \notin DOMAIN coll \/ collNext[k] # coll[k])
                   => (orgRef # 0 /\ k[1] = orgRef /\ collNext[k].OrgID = orgId')
       IN /\ Scoped(appointment, appointment')
          /\ Scoped(ticket, ticket')
          /\ Scoped(checkin, checkin')
          /\ DOMAIN appointment \subseteq DOMAIN appointment'
          /\ DOMAIN ticket \subseteq DOMAIN ticket'
          /\ DOMAIN checkin \subseteq DOMAIN checkin'
          /\ Len(notifications') >= Len(notifications)
          /\ \A n \in 1..Len(notifications') :
                IF n <= Len(notifications) THEN notifications'[n] = notifications[n]
                ELSE orgRef # 0 /\ notifications'[n].org = orgRef
          /\ \A i \in 1..Len(poc') : i > Len(poc) => poc'[i].addedBy = orgId'
      ]_vars

\* Appointments under both tenants, and a notification under the second.
C5_Witness ==
    /\ \E k \in DOMAIN appointment : k[1] = 1 /\ appointment[k].OrgID = "Acme"
    /\ \E k \in DOMAIN appointment : k[1] = 2 /\ appointment[k].OrgID = "Other"
    /\ \E n \in 1..Len(notifications) : notifications[n].org = 2

\* C6: handling the same inbound event twice leaves the same persisted
\* Appointments, Tickets, Check-ins and notifications as handling it once.
C6_RedeliveryIdempotent ==
    [][(now >= 1 /\ req' = req)
          => /\ DOMAIN appointment' = DOMAIN appointment
             /\ DOMAIN ticket' = DOMAIN ticket
             /\ DOMAIN checkin' = DOMAIN checkin
             /\ Len(notifications') = Len(notifications)
      ]_vars

\* C8: when the resolved tenant has no organization document, POST /webhook
\* answers 200 and drops the event: nothing is created and nothing is sent.
C8_UnknownTenantAcknowledged ==
    [][(req'.object # "" /\ OrgQuery(World, orgId') = 0)
          => /\ res' = 200
             /\ UNCHANGED <<poc, chat, patients, appointment, ticket, checkin,
                            notifications, outbox>>
      ]_vars

\* C9: feedback is attached to an Appointment only by a submission whose
\* flow_token field equals the Appointment's stored FlowToken; a submission
\* with no flow_token matches none, so it changes no Appointment and creates
\* no 'Feedback' notification.
C9_FeedbackOnlyByToken ==
    [][LET fd == req'.msg.flowData
           isFeedback == /\ req'.msg.type = "interactive" /\ req'.msg.jsonOk
                         /\ Field(fd, "screen_0_Full_Name_0") = ""
                         /\ Field(fd, "screen_0_Choose_0") # ""
           matching == {k \in DOMAIN appointment :
                           /\ k[1] = OrgQuery(World, orgId')
                           /\ "flow_token" \in DOMAIN fd
                           /\ fd["flow_token"] = appointment[k].FlowToken}
       IN /\ \A k \in DOMAIN appointment :
                 (/\ k \in DOMAIN appointment'
                  /\ appointment'[k].feedback.present
                  /\ appointment'[k].feedback # appointment[k].feedback)
                 => k \in matching
          /\ (isFeedback /\ matching = {})
                 => /\ appointment' = appointment
                    /\ \A n \in 1..Len(notifications') :
                          n > Len(notifications)
                          => notifications'[n].event # "Feedback"
      ]_vars

\* C10: an Appointment is never deleted, and once it has a feedback object no
\* later feedback submission or other operation changes it.
C10_AppointmentWriteOnce ==
    [][\A k \in DOMAIN appointment :
          /\ k \in DOMAIN appointment'
          /\ appointment[k].feedback.present => appointment'[k] = appointment[k]
      ]_vars

-----------------------------------------------------------------------------
(* SpecResolve: getOrganizationFromContext applied to one request.           *)

\* The hints a request can carry, present or absent, hitting or missing.
ResolveRequests ==
    {[BaseRequest EXCEPT !.xOrganizationId = h, !.queryOrgId = q,
                         !.metaPhoneNumberId = mp, !.valuePhoneNumberId = vp,
                         !.metaOrganizationId = mo, !.msg = m] :
        h \in {"", "Acme", "Ghost"}, q \in {"", "Other"},
        mp \in {"", "ph1", "ph2", "ph9"}, vp \in {"", "ph3"},
        mo \in {"", "Acme"},
        m \in {NoMsg, TextMsg("p1", "hi"),
               [TextMsg("p2", "hi") EXCEPT !.contextOrganizationId = "Idle"]}}

InitResolve ==
    /\ organisation = OrganisationDocs
    /\ poc = <<>>
    /\ chat = <<>>
    /\ patients = <<>>
    /\ appointment = <<>>
    /\ ticket = <<>>
    /\ checkin = <<>>
    /\ notifications = <<>>
    /\ outbox = <<>>
    /\ organizationConfigs = <<>>
    /\ knowledgeCache = <<>>
    /\ orgSettingsCache = <<>>
    /\ adminSecret = AdminSecret
    /\ now = 0
    /\ req \in ResolveRequests
    /\ orgId = ""
    /\ res = 0
    /\ handlers = NoHandlers

\* const orgId = await getOrganizationFromContext(req)
ResolveContext ==
    /\ orgId = ""
    /\ orgId' = GetOrganizationFromContext(World, req)
    /\ UNCHANGED <<organisation, poc, chat, patients, appointment, ticket, checkin,
                   notifications, outbox, organizationConfigs, knowledgeCache,
                   orgSettingsCache, adminSecret, now, req, res, handlers>>

NextResolve == ResolveContext

SpecResolve == InitResolve /\ [][NextResolve]_vars

\* The phone-number id of a request, and the organization documents it matches
\* by primary and by legacy field.
PhoneIdOf(r) ==
    IF r.metaPhoneNumberId # "" THEN r.metaPhoneNumberId ELSE r.valuePhoneNumberId

ByPrimaryId(phoneId) ==
    {i \in 1..Len(organisation) : organisation[i].WA_Phone_ID = phoneId}

ByLegacyId(phoneId) ==
    {i \in 1..Len(organisation) : organisation[i].FB_Number = phoneId}

LookupHit(r) ==
    PhoneIdOf(r) # "" /\ ByPrimaryId(PhoneIdOf(r)) \cup ByLegacyId(PhoneIdOf(r)) # {}

LookupResult(r) ==
    IF ByPrimaryId(PhoneIdOf(r)) # {}
    THEN organisation[Min(ByPrimaryId(PhoneIdOf(r)))].OrgID
    ELSE organisation[Min(ByLegacyId(PhoneIdOf(r)))].OrgID

ContextOrganizationId(r) ==
    IF r.msg.type = "none" THEN "" ELSE r.msg.contextOrganizationId

-----------------------------------------------------------------------------
(* SpecConc: two text deliveries from one sender to one tenant, their        *)
(* handlers interleaved at the awaits of getOrCreatePoCByPhone and of the    *)
(* text branch of POST /webhook.                                             *)

ConcDeliveries == {"d1", "d2"}

ConcRequest(d) ==
    [ForAcme EXCEPT !.msg = TextMsg("p1", IF d = "d1" THEN "hi" ELSE "I need help now")]

ConcEnv(d) ==
    [NoEnv EXCEPT !.llm = LlmContent(IF d = "d1" THEN "Sure." ELSE "On it.")]

\* A handler: where it stands, its place in the order of arrival (0 before),
\* and its locals snap (0 for empty), pocRef, messages, and the turn list it
\* has persisted.
NewHandler ==
    [pc |-> "start", arrival |-> 0, snap |-> 0, pocRef |-> 0,
     messages |-> <<>>, persisted |-> <<>>]

InitWorld ==
    [organisation |-> OrganisationDocs, poc |-> <<>>, chat |-> <<>>,
     patients |-> <<>>, appointment |-> <<>>, ticket |-> <<>>, checkin |-> <<>>,
     notifications |-> <<>>, outbox |-> <<>>, organizationConfigs |-> <<>>,
     knowledgeCache |-> <<>>, orgSettingsCache |-> <<>>, adminSecret |-> AdminSecret,
     now |-> 0]

\* The sender is new, or known from an earlier message.
InitConc ==
    /\ \E w \in {InitWorld, GetOrCreatePoCByPhone(InitWorld, "p1", "Ann", "Acme")} :
          /\ organisation = w.organisation
          /\ poc = w.poc
          /\ chat = w.chat
          /\ patients = w.patients
          /\ appointment = w.appointment
          /\ ticket = w.ticket
          /\ checkin = w.checkin
          /\ notifications = w.notifications
          /\ outbox = w.outbox
          /\ organizationConfigs = w.organizationConfigs
          /\ knowledgeCache = w.knowledgeCache
          /\ orgSettingsCache = w.orgSettingsCache
          /\ adminSecret = w.adminSecret
    /\ now = 0
    /\ req = BaseRequest
    /\ orgId = ""
    /\ res = 0
    /\ handlers = [d \in ConcDeliveries |-> NewHandler]

\* Handler d moves on, from world w (the state at the next tick).
Step(d, w, h) ==
    /\ SetWorld(w)
    /\ now' = now + 1
    /\ handlers' = [handlers EXCEPT ![d] = h]
    /\ UNCHANGED <<req, orgId, res>>

\* Handler d answers.
Respond(d, w, status) ==
    /\ SetWorld(w)
    /\ now' = now + 1
    /\ handlers' = [handlers EXCEPT ![d].pc = "done"]
    /\ req' = ConcRequest(d)
    /\ orgId' = GetOrganizationFromContext(World, ConcRequest(d))
    /\ res' = status

Tick == [World EXCEPT !.now = now + 1]

ConcOrgId(d) == GetOrganizationFromContext(World, ConcRequest(d))

ConcConfig(d) == LoadOrganizationConfig(World, ConcOrgId(d))

\* The request arrives: tenant resolution and loadOrganizationConfig.
Arrive(d) ==
    /\ handlers[d].pc = "start"
    /\ LET w == CacheOrganizationConfig(Tick, ConcOrgId(d)) IN
       IF ConcRequest(d).object = "" \/ ConcConfig(d).orgRef = 0
       THEN Respond(d, w, 404)
       ELSE IF ~ConcConfig(d).billingActive THEN Respond(d, w, 200)
       ELSE Step(d, w, [handlers[d] EXCEPT
                           !.pc = "query",
                           !.arrival = 1 + Cardinality({x \in ConcDeliveries :
                                                         handlers[x].arrival > 0})])

\* let snap = await db.collection("PoC").where(...).where(...).limit(1).get()
QueryContact(d) ==
    /\ handlers[d].pc = "query"
    /\ Step(d, Tick, [handlers[d] EXCEPT
                         !.pc = "snap",
                         !.snap = QueryPoC(World, ConcRequest(d).msg.from, ConcOrgId(d))])

\* !snap.empty: await updatePoCLastSeen(snap.docs[0].ref)
FoundContact(d) ==
    /\ handlers[d].pc = "snap"
    /\ handlers[d].snap # 0
    /\ Step(d, UpdatePoCLastSeen(Tick, handlers[d].snap),
            [handlers[d] EXCEPT !.pc = "inbound", !.pocRef = handlers[d].snap])

\* snap.empty: let newDoc = await db.collection("PoC").add({...})
AddContact(d) ==
    /\ handlers[d].pc = "snap"
    /\ handlers[d].snap = 0
    /\ Step(d, AddPoC(Tick, ConcRequest(d).msg.from, ConcRequest(d).msg.contactName,
                      ConcOrgId(d)),
            [handlers[d] EXCEPT !.pc = "added", !.pocRef = Len(poc) + 1])

\* ... the notification, the welcome template and the default Patient.
AfterAddContact(d) ==
    /\ handlers[d].pc = "added"
    /\ Step(d, AfterAddPoC(Tick, handlers[d].pocRef, ConcRequest(d).msg.from,
                           ConcRequest(d).msg.contactName, ConcOrgId(d)),
            [handlers[d] EXCEPT !.pc = "inbound"])

\* The inbound transcript entry; a check-in command is served here.
Inbound(d) ==
    /\ handlers[d].pc = "inbound"
    /\ LET w == TextInbound(Tick, ConcRequest(d), ConcOrgId(d), ConcConfig(d),
                            handlers[d].pocRef)
       IN IF IsCheckin(ConcRequest(d).msg.text, ConcOrgId(d))
          THEN \E out \in {CheckinBranch(w, ConcRequest(d), ConcEnv(d), ConcOrgId(d),
                                         ConcConfig(d), handlers[d].pocRef)} :
                  Respond(d, out.w, out.status)
          ELSE Step(d, w, [handlers[d] EXCEPT !.pc = "get"])

\* let docSnap = await pocRef.get(), and the turn list built from it.
GetContact(d) ==
    /\ handlers[d].pc = "get"
    /\ IF poc[handlers[d].pocRef].BotMode = FALSE THEN Respond(d, Tick, 200)
       ELSE Step(d, Tick, [handlers[d] EXCEPT
               !.pc = "llm",
               !.messages = MessagesWithUserTurn(poc[handlers[d].pocRef].messages,
                                ConcConfig(d), ConcRequest(d).msg.text)])

\* The LLM answers; the turn list is persisted.
LlmAnswers(d) ==
    /\ handlers[d].pc = "llm"
    /\ IF ConcEnv(d).llm.kind = "throw" THEN Respond(d, Tick, 500)
       ELSE IF ConcEnv(d).llm.kind = "nochoice" THEN Respond(d, Tick, 200)
       ELSE \E w \in {LlmRound(Tick, ConcRequest(d), ConcEnv(d), ConcOrgId(d),
                               handlers[d].pocRef, handlers[d].messages)} :
               Step(d, w, [handlers[d] EXCEPT
                              !.pc = "reply",
                              !.persisted = w.poc[handlers[d].pocRef].messages])

\* The reply is sent and saved, and the request answered.
Reply(d) ==
    /\ handlers[d].pc = "reply"
    /\ Respond(d, SendReply(Tick, ConcRequest(d), ConcOrgId(d), ConcConfig(d),
                            handlers[d].pocRef,
                            LlmReply(World, ConcEnv(d).llm, ConcOrgId(d))),
               200)

NextConc ==
    \E d \in ConcDeliveries :
        \/ Arrive(d)
        \/ QueryContact(d)
        \/ FoundContact(d)
        \/ AddContact(d)
        \/ AfterAddContact(d)
        \/ Inbound(d)
        \/ GetContact(d)
        \/ LlmAnswers(d)
        \/ Reply(d)

SpecConc == InitConc /\ [][NextConc]_vars

IsPrefix(s, t) == Len(s) <= Len(t) /\ SubSeq(t, 1, Len(s)) = s

\* The exchange of delivery d stands in turn list t: its user turn, followed
\* at once by its assistant turn.
HasExchange(t, d) ==
    \E n \in 1..(Len(t) - 1) :
        /\ t[n] = [role |-> "user", content |-> ConcRequest(d).msg.text]
        /\ t[n + 1] = [role |-> "assistant", content |-> ConcEnv(d).llm.content]

\* C1: in every interleaving of concurrent deliveries there is at most one
\* Contact for a (phone, tenant) pair.
C1_OneContactPerPhoneAndTenant ==
    \A i, j \in 1..Len(poc) :
        (poc[i].Phone = poc[j].Phone /\ poc[i].addedBy = poc[j].addedBy) => i = j

\* C2: in every interleaving, once a handler has persisted its exchange the
\* Contact's turn history contains it, user turn then assistant turn, and what
\* the handler persisted stays a prefix of the history; exchanges stand in the
\* order of arrival.
C2_TurnsKept ==
    \A d \in ConcDeliveries :
        handlers[d].persisted # <<>> =>
            /\ HasExchange(poc[handlers[d].pocRef].messages, d)
            /\ IsPrefix(handlers[d].persisted, poc[handlers[d].pocRef].messages)

-----------------------------------------------------------------------------
(* SpecPatients: registration forms and appointment bookings of one sender   *)
(* of one tenant, handled one at a time.                                     *)

RegistrationNamed(name) ==
    [RegistrationForm EXCEPT !["screen_0_Full_Name_0"] = name]

PatientNames == {"Ann", "ann", "Ann B", "Tom", " ann b", "TOM "}

PatientRequests ==
    {[ForAcme EXCEPT !.msg = FormMsg("p1", f)] :
        f \in {RegistrationNamed(n) : n \in {"Ann B", "Tom"}}
                 \cup {AppointmentForm(FlowToken1, n) : n \in PatientNames}}

DeliverPatientForm ==
    \E r \in PatientRequests : \E n \in IdSuffixes :
        /\ r.msg.nfmReply
        /\ PostWebhook(r, [NoEnv EXCEPT !.idSuffix = n])

NextPatients == DeliverPatientForm

SpecPatients == Init /\ [][NextPatients]_vars

-----------------------------------------------------------------------------
(* SpecCheckin: texts that are, or look like, the Checkin command.           *)

CheckinTexts ==
    {"Checkin:Acme", "Checkin: Acme ", "Checkin:Acme:desk", "Checkin:Other",
     "Checkin:", "checkin:Acme"}

CheckinRequests ==
    {[ForAcme EXCEPT !.msg = TextMsg("p1", t)] : t \in CheckinTexts}
      \cup {[ForOther EXCEPT !.msg = TextMsg("p1", t)] :
               t \in {"Checkin:Acme", "Checkin:Other"}}

\* The generated Check-in id, and whether the LLM answers or fails.
CheckinEnvs ==
    {[NoEnv EXCEPT !.idSuffix = n, !.llm = l] :
        n \in IdSuffixes, l \in {LlmContent("Sure."), LlmThrows}}

DeliverCheckinText ==
    \E r \in CheckinRequests : \E e \in CheckinEnvs :
        /\ r.msg.type = "text"
        /\ PostWebhook(r, e)

NextCheckin == DeliverCheckinText

SpecCheckin == Init /\ [][NextCheckin]_vars

\* The text after the prefix "Checkin:", and the part of it before the next
\* colon.
CommandSuffix(text) == SubSeq(text, 9, Len(text))

CommandArgument(text) ==
    LET rest   == CommandSuffix(text)
        colons == {k \in 1..Len(rest) : SubSeq(rest, k, k) = ":"}
    IN IF colons = {} THEN rest ELSE SubSeq(rest, 1, Min(colons) - 1)

Unspaced(str) ==
    LET inked == {k \in 1..Len(str) : SubSeq(str, k, k) # " "}
    IN IF inked = {} THEN "" ELSE SubSeq(str, Min(inked), CHOOSE k \in inked :
                                                \A m \in inked : m <= k)

Contains(str, part) ==
    \E k \in 1..(Len(str) - Len(part) + 1) : SubSeq(str, k, k + Len(part) - 1) = part

\* What the step made of the text of a known contact c, given whether the text
\* counts as the command.
CheckinOutcome(c, isCommand) ==
    IF isCommand
    THEN /\ Cardinality({k \in DOMAIN checkin' :
                            k \notin DOMAIN checkin \/ checkin'[k] # checkin[k]}) = 1
         /\ Len(notifications') = Len(notifications) + 1
         /\ notifications'[Len(notifications')].event = "Checkin"
         /\ Len(outbox') = Len(outbox) + 1
         /\ Contains(outbox'[Len(outbox')].text,
                     organisation[OrgQuery(World, orgId')].Name)
         /\ poc'[c].messages = poc[c].messages
         /\ res' = 200
    ELSE /\ checkin' = checkin
         /\ \A n \in 1..Len(notifications') :
               n > Len(notifications) => notifications'[n].event # "Checkin"
         /\ res' = 200 =>
               /\ Len(poc'[c].messages) >= 2
               /\ poc'[c].messages[Len(poc'[c].messages) - 1]
                     = [role |-> "user", content |-> req'.msg.text]
               /\ poc'[c].messages[Len(poc'[c].messages)].role = "assistant"
               /\ poc'[c].messages # poc[c].messages

\* C12 as stated: a text of an existing contact is served as a check-in (one
\* Check-in record, one notification, one acknowledgment with the tenant's
\* name, turn history untouched) if and only if it starts with "Checkin:" and
\* the whole text after the colon equals the tenant id; any other text goes to
\* the AI handling.
C12_CheckinCommand ==
    [][\A c \in 1..Len(poc) :
          (/\ req'.msg.type = "text"
           /\ poc[c].Phone = req'.msg.from /\ poc[c].addedBy = orgId'
           /\ orgId' \in Tenants)
          => CheckinOutcome(c, /\ StartsWith(req'.msg.text, "Checkin:")
                               /\ CommandSuffix(req'.msg.text) = orgId')
      ]_vars

\* C12, amended: ... if and only if it starts with "Checkin:" and the part of
\* the text between that colon and the next colon (or the end), with the
\* surrounding spaces removed, equals the tenant id.
C12_CheckinCommandAmended ==
    [][\A c \in 1..Len(poc) :
          (/\ req'.msg.type = "text"
           /\ poc[c].Phone = req'.msg.from /\ poc[c].addedBy = orgId'
           /\ orgId' \in Tenants)
          => CheckinOutcome(c, /\ StartsWith(req'.msg.text, "Checkin:")
                               /\ Unspaced(CommandArgument(req'.msg.text)) = orgId')
      ]_vars

\* A known contact has checked in with a padded command, and another such
\* command went to the AI handling.
C12_Witness ==
    /\ req.msg.text = "Checkin:Other" /\ orgId = "Acme" /\ res = 200
    /\ \E k \in DOMAIN checkin : checkin[k].checkinTime > 1 /\ checkin[k].OrgID = "Acme"
    /\ \E n \in 1..Len(outbox) :
          outbox[n].text = "Welcome to Acme Clinic! Check-in recorded. Please proceed!"
    /\ \E i \in 1..Len(chat[1]) : chat[1][i].Msg_Body = "Checkin: Acme "

-----------------------------------------------------------------------------
(* SpecForms: form replies that carry the marker keys of several flows, or   *)
(* a marker key with an empty value.                                         *)

\* A form with the given keys; a key listed in blank has the value "".
MarkedForm(keys, blank) ==
    [k \in keys |->
        IF k \in blank THEN ""
        ELSE CASE k = "screen_0_Full_Name_0" -> "Ann B"
               [] k = "screen_0_Choose_0" -> "0_Yes"
               [] k = "screen_0_Description_of_issue_2" -> "Portal down"
               [] k = "doctorId" -> "d1"
               [] k = "name" -> "Tom"
               [] k = "date" -> "2025-01-02"
               [] OTHER -> "10:00"]

FullNameKey == "screen_0_Full_Name_0"
ChooseKey == "screen_0_Choose_0"
DescriptionKey == "screen_0_Description_of_issue_2"
AppointmentKeys == {"doctorId", "name", "date", "time"}

MarkedForms ==
    {MarkedForm({FullNameKey, ChooseKey, DescriptionKey}, {}),
     MarkedForm({FullNameKey, ChooseKey}, {FullNameKey}),
     MarkedForm({FullNameKey} \cup AppointmentKeys, {FullNameKey}),
     MarkedForm({ChooseKey, DescriptionKey}, {}),
     MarkedForm({ChooseKey, DescriptionKey}, {ChooseKey}),
     MarkedForm({DescriptionKey} \cup AppointmentKeys, {}),
     MarkedForm(AppointmentKeys, {})}

FormRequests == {[ForAcme EXCEPT !.msg = FormMsg("p1", f)] : f \in MarkedForms}

DeliverMarkedForm ==
    \E r \in FormRequests : \E n \in IdSuffixes :
        /\ r.msg.nfmReply
        /\ PostWebhook(r, [NoEnv EXCEPT !.idSuffix = n])

NextForms == DeliverMarkedForm

SpecForms == Init /\ [][NextForms]_vars

\* The acknowledgments the step has sent, one per handler that ran.
AcksSent ==
    {n \in (Len(outbox) + 1)..Len(outbox') : outbox'[n].type = "text"}

Written(coll, collNext) ==
    {k \in DOMAIN collNext : k \notin DOMAIN coll \/ collNext[k] # coll[k]}

NewEvents ==
    {notifications'[n].event : n \in (Len(notifications) + 1)..Len(notifications')}

\* The step ran the named handler and no other.
RanHandler(handler) ==
    /\ res' = 200
    /\ Cardinality(AcksSent) = 1
    /\ ("Registration" \in NewEvents) = (handler = "registration")
    /\ (Written(ticket, ticket') # {}) = (handler = "support")
    /\ (Written(appointment, appointment') # {}
           /\ "Appointment" \in NewEvents) = (handler = "appointment")
    /\ \A n \in AcksSent :
          outbox'[n].text =
             CASE handler = "registration" ->
                    "Thank you for completing your registration! You can now use our services."
               [] handler = "feedback" -> "Thank you for your feedback!"
               [] handler = "support" -> "We have created your support ticket. Thank you!"
               [] OTHER -> "Your appointment has been recorded. Thank you!"

\* C13: a form reply with the key screen_0_Full_Name_0 is handled as a
\* registration whatever the key's value and the other keys; else one with
\* screen_0_Choose_0 as feedback; else one with
\* screen_0_Description_of_issue_2 as a support ticket; else as an
\* appointment; exactly one handler runs.
C13_RoutingByKey ==
    [][(req'.msg.type = "interactive" /\ req'.msg.nfmReply /\ req'.msg.jsonOk
           /\ orgId' \in Tenants)
          => RanHandler(IF FullNameKey \in DOMAIN req'.msg.flowData THEN "registration"
                        ELSE IF ChooseKey \in DOMAIN req'.msg.flowData THEN "feedback"
                        ELSE IF DescriptionKey \in DOMAIN req'.msg.flowData THEN "support"
                        ELSE "appointment")
      ]_vars

-----------------------------------------------------------------------------
(* SpecLlm: text messages answered by the LLM in every way it can answer.    *)

ParseError == "Error parsing function arguments."

Unparsed(fc) == [fc EXCEPT !.argsOk = FALSE]

UnparsedCalls ==
    {Unparsed(LlmFunctionCall("appointment_flow", "new")),
     Unparsed(LlmFunctionCall("support_flow", ""))}

FreeTexts == {"Sure.", "{\"reply\":\"Hi\"}", "{\"reply\":\"\"}"}

LlmAnswerSet ==
    {LlmContent(t) : t \in FreeTexts}
       \cup {LlmFunctionCall("appointment_flow", "new"), LlmThrows}
       \cup UnparsedCalls

LlmRequests == {[ForAcme EXCEPT !.msg = TextMsg("p1", "hi")]}

DeliverLlmText ==
    \E r \in LlmRequests : \E l \in LlmAnswerSet :
        /\ r.msg.type = "text"
        /\ PostWebhook(r, [NoEnv EXCEPT !.llm = l])

NextLlm == DeliverLlmText

SpecLlm == Init /\ [][NextLlm]_vars

\* What handling r leaves when the LLM answers l, from the current state.
Answered(r, l) == HandleWebhook([World EXCEPT !.now = now + 1], r, [NoEnv EXCEPT !.llm = l])

\* The contact of r in w.
ContactOf(w, r) == QueryPoC(w, r.msg.from, GetOrganizationFromContext(World, r))

Last(seq) == seq[Len(seq)]

\* The entries the handling has added to the outbox.
Sent(out) == SubSeq(out.w.outbox, Len(outbox) + 1, Len(out.w.outbox))

\* The handling has answered the user with text: the last message sent and
\* the last transcript entry are that text, and the webhook answers 200.
AnsweredWith(out, r, text) ==
    LET p == ContactOf(out.w, r) IN
    /\ out.status = 200
    /\ p # 0
    /\ Len(Sent(out)) > 0
    /\ Last(Sent(out)).type = "text" /\ Last(Sent(out)).to = r.msg.from
    /\ Last(Sent(out)).text = text
    /\ Len(out.w.chat[p]) > 0
    /\ Last(out.w.chat[p]).Direction = "outbound"
    /\ Last(out.w.chat[p]).Msg_Body = text

\* The persisted turn list ends with the user turn and the assistant turn.
TurnsEndWith(out, r, content) ==
    LET p == ContactOf(out.w, r)
        turns == out.w.poc[p].messages
    IN /\ p # 0
       /\ Len(turns) >= 2
       /\ Last(turns) = [role |-> "assistant", content |-> content]
       /\ turns[Len(turns) - 1] = [role |-> "user", content |-> r.msg.text]

\* C14: when the arguments of the intent the LLM chose do not parse, no
\* handler is dispatched and nothing is thrown; "Error parsing function
\* arguments." becomes the assistant turn, the turn list is persisted, the
\* string is sent to the user and the webhook answers 200.
C14_UnparsedArguments ==
    \A r \in LlmRequests : \A l \in UnparsedCalls :
        \E out \in {Answered(r, l)} :
            /\ AnsweredWith(out, r, ParseError)
            /\ TurnsEndWith(out, r, ParseError)
            /\ \A n \in 1..Len(Sent(out)) : Sent(out)[n].name \notin {"Appointment", "support"}
            /\ out.w.appointment = appointment /\ out.w.ticket = ticket

\* The error string has been sent to a known contact and is its last turn.
C14_Witness ==
    /\ res = 200 /\ now > 1
    /\ Len(outbox) > 0 /\ Last(outbox).text = ParseError
    /\ \E p \in 1..Len(poc) :
          /\ Len(poc[p].messages) > 3
          /\ Last(poc[p].messages) = [role |-> "assistant", content |-> ParseError]

\* C15: whichever LLM call fails while a text message of a bot-enabled
\* contact is handled, the user is sent some reply and the webhook does not
\* answer 5xx.
C15_LlmFailureCaught ==
    [][(req'.msg.type = "text" /\ orgId' \in Tenants
           /\ \A p \in 1..Len(poc) : poc[p].BotMode)
          => /\ res' < 500
             /\ \E n \in (Len(outbox) + 1)..Len(outbox') :
                   outbox'[n].type = "text" /\ outbox'[n].to = req'.msg.from
      ]_vars

\* The value of the reply field of a structured assistant text, "" if the
\* text is not one.
ReplyField(text) ==
    IF /\ StartsWith(text, ReplyPrefix)
       /\ Len(text) >= Len(ReplyPrefix) + Len(ReplySuffix)
       /\ SubSeq(text, Len(text) - 1, Len(text)) = ReplySuffix
    THEN SubSeq(text, Len(ReplyPrefix) + 1, Len(text) - Len(ReplySuffix))
    ELSE ""

HasReplyField(text) ==
    /\ StartsWith(text, ReplyPrefix)
    /\ Len(text) >= Len(ReplyPrefix) + Len(ReplySuffix)
    /\ SubSeq(text, Len(text) - 1, Len(text)) = ReplySuffix

\* C16: when the LLM chooses no intent, the user sees the reply field of the
\* assistant text if the text is a structured object with a reply field, the
\* raw text otherwise; the persisted assistant turn is the raw text.
C16_ReplyField ==
    \A r \in LlmRequests : \A t \in FreeTexts :
        \E out \in {Answered(r, LlmContent(t))} :
            /\ AnsweredWith(out, r, IF HasReplyField(t) THEN ReplyField(t) ELSE t)
            /\ TurnsEndWith(out, r, t)

\* C16, as the code has it: the reply field is used when it is not empty.
C16_ReplyFieldAmended ==
    \A r \in LlmRequests : \A t \in FreeTexts :
        \E out \in {Answered(r, LlmContent(t))} :
            /\ AnsweredWith(out, r, IF ReplyField(t) # "" THEN ReplyField(t) ELSE t)
            /\ TurnsEndWith(out, r, t)

\* A structured answer has been unwrapped for the user and kept raw in the
\* turn list; an answer with an empty reply field went out as it was.
C16_Witness ==
    /\ res = 200
    /\ Len(outbox) > 0 /\ Last(outbox).text = "Hi"
    /\ \E p \in 1..Len(poc) :
          /\ Last(poc[p].messages).content = "{\"reply\":\"Hi\"}"
          /\ \E i \in 1..Len(chat[p]) :
                chat[p][i].Direction = "outbound" /\ chat[p][i].Msg_Body = "{\"reply\":\"\"}"

-----------------------------------------------------------------------------
(* Knowledge lookup *)

\* String.prototype.includes
Includes(s, part) ==
    \E k \in 1..(Len(s) - Len(part) + 1) : SubSeq(s, k, k + Len(part) - 1) = part

\* knowledgeText.split("\n")
RECURSIVE SplitLines(_)
SplitLines(s) ==
    LET i == IndexOf(s, "\n", 1) IN
    IF i = 0 THEN <<s>>
    ELSE <<SubSeq(s, 1, i - 1)>> \o SplitLines(SubSeq(s, i + 1, Len(s)))

\* matchedLines.join("\n")
RECURSIVE JoinLines(_)
JoinLines(lines) ==
    IF Len(lines) = 0 THEN ""
    ELSE IF Len(lines) = 1 THEN lines[1]
    ELSE lines[1] \o "\n" \o JoinLines(Tail(lines))

\* lines.filter(keep)
RECURSIVE FilterLines(_, _)
FilterLines(lines, lcQuery) ==
    IF Len(lines) = 0 THEN <<>>
    ELSE (IF Includes(ToLowerCase(lines[1]), lcQuery) THEN <<lines[1]>> ELSE <<>>)
            \o FilterLines(Tail(lines), lcQuery)

\* refineKnowledgeWithGpt: the summary, or the lines themselves when the
\* LLM fails or answers nothing (summary = "").
RefineKnowledgeWithGpt(matchedLines, summary) ==
    IF summary # "" THEN summary ELSE JoinLines(matchedLines)

\* checkKnowledgeFullWithGpt: the LLM's answer over the whole text, "" when
\* it fails (answer = "") or finds nothing.
CheckKnowledgeFullWithGpt(answer) ==
    LET reply == Trim(answer) IN
    IF \/ Includes(ToLowerCase(reply), "no relevant info")
       \/ Includes(ToLowerCase(reply), "no relevant information")
       \/ Includes(ToLowerCase(reply), "nothing relevant")
       \/ Len(reply) < 4
    THEN "" ELSE reply

\* knowledgeLookupImpl: knowledgeText is what loadKnowledgeBase returned, gpt
\* what the two LLM calls answer.  The result records the reply, the lines
\* handed to refineKnowledgeWithGpt and which LLM calls were made.
KnowledgeLookupImpl(w, userQuery, id, knowledgeText, gpt) ==
    LET c == LoadOrganizationConfig(w, id)
        orgName == IF c.orgName # "" THEN c.orgName ELSE id
        matchingLines == FilterLines(SplitLines(knowledgeText), ToLowerCase(userQuery))
        fallbackReply == CheckKnowledgeFullWithGpt(gpt.full)
    IN IF \/ knowledgeText = ""
          \/ StartsWith(knowledgeText, "Error")
          \/ StartsWith(knowledgeText, "No knowledge")
       THEN [reply |-> "No knowledge base loaded for " \o orgName \o ". Sorry.",
             refined |-> <<>>, refineCalled |-> FALSE, fullCalled |-> FALSE]
       ELSE IF Len(matchingLines) > 0
       THEN [reply |-> RefineKnowledgeWithGpt(matchingLines, gpt.refine),
             refined |-> matchingLines, refineCalled |-> TRUE, fullCalled |-> FALSE]
       ELSE [reply |-> IF Len(Trim(fallbackReply)) > 0 THEN fallbackReply
                       ELSE "No direct info found in the knowledge base. Please ask more about "
                               \o orgName \o "!",
             refined |-> <<>>, refineCalled |-> FALSE, fullCalled |-> TRUE]

-----------------------------------------------------------------------------
(* Symptom assessment: doctors by specialty *)

\* A faulty variant of levenshteinDistance:
\* a substitution costs two.
RECURSIVE MatrixRowSubstituteTwo(_, _, _, _, _)
MatrixRowSubstituteTwo(a, b, i, prev, cur) ==
    LET j == Len(cur) IN
    IF j > Len(b) THEN cur
    ELSE MatrixRowSubstituteTwo(a, b, i, prev, Append(cur,
            IF SubSeq(a, i, i) = SubSeq(b, j, j) THEN prev[j]
            ELSE Min({prev[j + 1] + 1, cur[j] + 1, prev[j] + 2})))

\* levenshteinDistance, the inner loop: row i of the matrix from row i - 1.
\* matrix[i][j] is cell j + 1 of the row; cur holds the cells filled so far.
RECURSIVE MatrixRow(_, _, _, _, _)
MatrixRow(a, b, i, prev, cur) ==
    LET j == Len(cur) IN
    IF j > Len(b) THEN cur
    ELSE MatrixRow(a, b, i, prev, Append(cur,
            IF SubSeq(a, i, i) = SubSeq(b, j, j) THEN prev[j]
            ELSE Min({prev[j + 1] + 1, cur[j] + 1, prev[j] + 1})))

\* ... the outer loop: the last row, from row i - 1.
RECURSIVE MatrixRows(_, _, _, _)
MatrixRows(a, b, i, prev) ==
    IF i > Len(a) THEN prev
    ELSE MatrixRows(a, b, i + 1, MatrixRow(a, b, i, prev, <<i>>))

\* levenshteinDistance
LevenshteinDistance(a, b) ==
    IF a = "" THEN Len(b)
    ELSE IF b = "" THEN Len(a)
    ELSE MatrixRows(a, b, 1, [j \in 1..(Len(b) + 1) |-> j - 1])[Len(b) + 1]

Quotes == {"'", "\""}

\* x.toLowerCase().trim().replace(/^['"]|['"]$/g, "")
NormalizeSpecialty(x) ==
    LET t  == Trim(ToLowerCase(x))
        t1 == IF Len(t) > 0 /\ SubSeq(t, 1, 1) \in Quotes THEN Tail(t) ELSE t
    IN IF Len(t1) > 0 /\ SubSeq(t1, Len(t1), Len(t1)) \in Quotes
       THEN SubSeq(t1, 1, Len(t1) - 1) ELSE t1

\* The doctors may be this far from the specialty asked for.
MaxDistance == 3

\* A faulty variant of findDoctorsByFuzzySpecialty:
\* the doctors of every tenant are searched.
RECURSIVE FindDoctorsOfAnyTenant(_, _, _)
FindDoctorsOfAnyTenant(specialty, id, n) ==
    IF n > Len(DoctorIds) THEN <<>>
    ELSE LET data == Doctors[DoctorIds[n]]
             target == NormalizeSpecialty(specialty)
             foundMatch ==
                \E k \in 1..Len(data.Specialization) :
                    LET sp == NormalizeSpecialty(data.Specialization[k]) IN
                    \/ LevenshteinDistance(sp, target) <= MaxDistance
                    \/ Includes(sp, target) \/ Includes(target, sp)
         IN (IF foundMatch THEN <<data>> ELSE <<>>)
               \o FindDoctorsOfAnyTenant(specialty, id, n + 1)

\* findDoctorsByFuzzySpecialty, from the n-th document on: the matching
\* doctors of tenant id in the order of the query.
RECURSIVE FindDoctorsByFuzzySpecialty(_, _, _)
FindDoctorsByFuzzySpecialty(specialty, id, n) ==
    IF n > Len(DoctorIds) THEN <<>>
    ELSE LET data == Doctors[DoctorIds[n]]
             target == NormalizeSpecialty(specialty)
             foundMatch ==
                \E k \in 1..Len(data.Specialization) :
                    LET sp == NormalizeSpecialty(data.Specialization[k]) IN
                    \/ LevenshteinDistance(sp, target) <= MaxDistance
                    \/ Includes(sp, target) \/ Includes(target, sp)
         IN (IF data.OrgID = id /\ foundMatch THEN <<data>> ELSE <<>>)
               \o FindDoctorsByFuzzySpecialty(specialty, id, n + 1)

-----------------------------------------------------------------------------
(* SpecFunctions: the helper functions applied to arguments drawn by Init.   *)
(* req holds the call (fn, its arguments a and b, the tenant and what the    *)
(* LLM answers), res the value returned.                                     *)

NoGpt == [refine |-> "", full |-> ""]

Call(fn, a, b, id, gpt) == [fn |-> fn, a |-> a, b |-> b, id |-> id, gpt |-> gpt]

\* What loadKnowledgeBase returns when there is no knowledge text.
KnowledgeSentinels ==
    {"No organization configuration found.", "No knowledge base loaded.",
     "No knowledge base available for Acme Clinic.", "Error loading knowledge base."}

KnowledgeTexts ==
    {"Visiting hours: 9am-5pm\nParking is free\nVISITING HOURS on Sunday: none",
     "Error codes: E1 means visiting hours are over\nParking is free",
     "No knowledge of allergies is needed\nVisiting hours: 9am-5pm",
     "Parking is free"}

Queries == {"visiting hours", "Visiting Hours", "parking", "x-ray", ""}

GptAnswers ==
    {[refine |-> r, full |-> f] :
        r \in {"", "We are open 9 to 5."},
        f \in {"", "No relevant info.", "Try the front desk."}}

KnowledgeCalls ==
    {Call("knowledgeLookupImpl", q, k, "Acme", g) :
        q \in Queries, k \in KnowledgeTexts \cup KnowledgeSentinels, g \in GptAnswers}

\* POSSIBLE_SPECIALTIES of classifySymptomWithGpt.
PossibleSpecialties ==
    {"General Physician", "Neurologist", "Cardiologist", "Orthopedic Surgeon",
     "Pediatrician", "Gynecologist", "Pathologist", "Oncologist",
     "ENT Surgeon", "Gastroenterologist", "Neuro Physician",
     "General Surgeon", "Urologist", "Nephrologist", "Dermatologist",
     "Physiotherapist", "RMO", "Psychologist", "Anesthesiologist",
     "Allergist/Immunologist", "Endocrinologist", "Hematologist",
     "Infectious Disease Specialist", "Pulmonologist", "Radiologist",
     "Rheumatologist", "Psychiatrist", "Ophthalmologist", "Plastic Surgeon",
     "Vascular Surgeon", "Neonatologist", "Geriatrician",
     "Sports Medicine Specialist", "Emergency Medicine Physician",
     "Critical Care Specialist", "Family Medicine Physician",
     "Pain Management Specialist", "Occupational Health Physician",
     "Cardiothoracic Surgeon", "Neurosurgeon", "Hepatologist",
     "Colorectal Surgeon", "Obstetrician", "Andrologist",
     "Pediatric Surgeon", "Medical Geneticist", "Forensic Pathologist",
     "Maxillofacial Surgeon", "Transplant Surgeon", "Nuclear Medicine Physician",
     "Interventional Radiologist", "Palliative Care Specialist"}

\* A faulty variant of classifySymptomWithGpt:
\* an answer is accepted when it contains a list entry.
ClassifySymptomWithGptContaining(content, throws) ==
    LET specialty == Trim(content) IN
    IF throws THEN "General Physician"
    ELSE IF \E sp \in PossibleSpecialties :
               Contains(ToLowerCase(specialty), ToLowerCase(sp))
    THEN specialty ELSE "General Physician"

\* classifySymptomWithGpt: content is the LLM's message content ("" when
\* there is none), throws says that the LLM call failed.
ClassifySymptomWithGpt(content, throws) ==
    LET specialty == Trim(content) IN
    IF throws THEN "General Physician"
    ELSE IF \E sp \in PossibleSpecialties : ToLowerCase(sp) = ToLowerCase(specialty)
    THEN specialty ELSE "General Physician"

\* What classifySymptomWithGpt may answer, as the LLM writes it.
Specialties ==
    {"Cardiologist", "CARDIOLOGIST", "Cardiologyst", " cardiologist ",
     "\"Cardiologist\"", "'Cardiology", "Cardio", "Dermatologist", "Dermatology",
     "Neurologist", "'neurologist'", "Urologist", "Skin", "skincare", "Kin",
     "General Physician", "Oncologist", "\"", ""}

DoctorCalls ==
    {Call("findDoctorsByFuzzySpecialty", sp, "", id, NoGpt) :
        sp \in Specialties, id \in {"Acme", "Other", "Ghost"}}

\* Words for levenshteinDistance: every word over Letters up to MaxWordLen
\* letters, and two pairs of specialties.
MaxWordLen == 3
Letters == {"a", "b"}

RECURSIVE WordsUpTo(_)
WordsUpTo(n) ==
    IF n = 0 THEN {""}
    ELSE LET shorter == WordsUpTo(n - 1) IN
         shorter \cup {w \o c : w \in shorter, c \in Letters}

DistanceCalls ==
    {Call("levenshteinDistance", a, b, "", NoGpt) :
        a \in WordsUpTo(MaxWordLen), b \in WordsUpTo(MaxWordLen)}
      \cup {Call("levenshteinDistance", "Cardiologist", "Cardiologyst", "", NoGpt),
            Call("levenshteinDistance", "Dermatologist", "Neurologist", "", NoGpt)}

\* Message bodies and form fields: the first n characters of the digits
\* repeated, for lengths on both sides of the limit of the transcript.
Digits10 == "0123456789"

Digits50 == Digits10 \o Digits10 \o Digits10 \o Digits10 \o Digits10
Digits400 ==
    Digits50 \o Digits50 \o Digits50 \o Digits50 \o Digits50 \o Digits50 \o Digits50
       \o Digits50

Pattern(n) == SubSeq(Digits400, 1, n)

BodyLengths == {1, 350} \cup 190..215 \cup 295..305 \cup 312..316

SaveCalls ==
    {Call(fn, Pattern(n), "", "Acme", NoGpt) :
        fn \in {"saveChatToPoC", "nfm_reply"}, n \in BodyLengths}
      \cup {Call("saveChatToPoC", body, "", "Acme", NoGpt) :
              body \in {"", Pattern(300) \o "...(truncated)"}}
      \cup {Call("saveChatToPoC (single-tenant)", Pattern(n), "", "Acme", NoGpt) :
              n \in {1, 350}}

\* Classifications: the LLM's content and whether the call failed ("throws").
ClassifyCalls ==
    {Call("classifySymptomWithGpt", content, b, "Acme", NoGpt) :
        content \in Specialties \cup {"rmo", " ENT surgeon", "Cardiologist.",
                                      "I suggest a Cardiologist", "Neuro"},
        b \in {"", "throws"}}

\* Registrations: the full name submitted and the tenant.
RegisterCalls ==
    {Call(fn, name, "", id, NoGpt) :
        fn \in {"processWelcomeFormSubmission", "processWelcomeFormSubmission (variant)"},
        name \in {"Ann B", "Tom"}, id \in {"Acme", "Other"}}

FunctionCalls ==
    KnowledgeCalls \cup DoctorCalls \cup DistanceCalls \cup SaveCalls \cup RegisterCalls
      \cup ClassifyCalls

InitFunctions ==
    /\ organisation = OrganisationDocs
    /\ poc = <<>>
    /\ chat = <<>>
    /\ patients = <<>>
    /\ appointment = <<>>
    /\ ticket = <<>>
    /\ checkin = <<>>
    /\ notifications = <<>>
    /\ outbox = <<>>
    /\ organizationConfigs = <<>>
    /\ knowledgeCache = <<>>
    /\ orgSettingsCache = <<>>
    /\ adminSecret = AdminSecret
    /\ now = 0
    /\ req \in FunctionCalls
    /\ orgId = ""
    /\ res = 0
    /\ handlers = NoHandlers

\* The call returns v; the store is as the call left it.
Return(w, v) ==
    /\ now = 0
    /\ SetWorld(w)
    /\ now' = 1
    /\ res' = v
    /\ orgId' = req.id
    /\ UNCHANGED <<req, handlers>>

LookupKnowledge ==
    /\ req.fn = "knowledgeLookupImpl"
    /\ Return(CacheOrganizationConfig(World, req.id),
              KnowledgeLookupImpl(World, req.a, req.id, req.b, req.gpt))

FindDoctors ==
    /\ req.fn = "findDoctorsByFuzzySpecialty"
    /\ Return(World, FindDoctorsByFuzzySpecialty(req.a, req.id, 1))

ClassifySymptom ==
    /\ req.fn = "classifySymptomWithGpt"
    /\ Return(World, ClassifySymptomWithGpt(req.a, req.b = "throws"))

Distance ==
    /\ req.fn = "levenshteinDistance"
    /\ Return(World, LevenshteinDistance(req.a, req.b))

\* saveChatToPoC with body req.a, for a contact that exists.
SaveChat ==
    /\ req.fn = "saveChatToPoC"
    /\ Return(SaveChatToPoC([AddPoC(World, "p1", "Ann", req.id) EXCEPT !.now = 1],
                            1, "inbound", "p1", "ph1", "text", req.a),
              "")

\* saveChatToPoC of the single-tenant variant with body req.a, for a contact
\* that exists.
SaveChatSingleTenant ==
    /\ req.fn = "saveChatToPoC (single-tenant)"
    /\ Return(SaveChatToPoCSingleTenant(
                  [AddPoC(World, "p1", "Ann", req.id) EXCEPT !.now = 1],
                  1, "inbound", "p1", "ph1", "text", req.a),
              "")

\* processWelcomeFormSubmission for a contact of tenant req.id, with the
\* registration form that names req.a.
Register ==
    /\ req.fn = "processWelcomeFormSubmission"
    /\ Return(ProcessWelcomeFormSubmission(
                  [GetOrCreatePoCByPhone(World, "p1", "Ann", req.id) EXCEPT !.now = 1],
                  1, RegistrationNamed(req.a), req.id),
              "")

\* The same call in the variant.
RegisterVariant ==
    /\ req.fn = "processWelcomeFormSubmission (variant)"
    /\ Return(ProcessWelcomeFormSubmissionVariant(
                  [GetOrCreatePoCByPhone(World, "p1", "Ann", req.id) EXCEPT !.now = 1],
                  1, RegistrationNamed(req.a), req.id),
              "")

\* The support form whose description is text.
LongForm(text) == [SupportForm EXCEPT !["screen_0_Description_of_issue_2"] = text]

\* POST /webhook with a form reply whose description is req.a.
SubmitForm ==
    /\ req.fn = "nfm_reply"
    /\ \E out \in {HandleWebhook([World EXCEPT !.now = 1],
                                  [ForAcme EXCEPT !.msg = FormMsg("p1", LongForm(req.a))],
                                  NoEnv)} :
          Return(out.w, out.status)

NextFunctions ==
    \/ LookupKnowledge \/ FindDoctors \/ Distance \/ SaveChat \/ SaveChatSingleTenant
    \/ Register \/ RegisterVariant \/ SubmitForm \/ ClassifySymptom

SpecFunctions == InitFunctions /\ [][NextFunctions]_vars

\* The lines of text that contain the query, case-insensitively.
MatchingLines(text, query) ==
    LET lines == SplitLines(text) IN
    {n \in 1..Len(lines) : Contains(ToLowerCase(lines[n]), ToLowerCase(query))}

\* C17: when at least one line of the tenant's knowledge text contains the
\* query case-insensitively, exactly the matching lines are passed to the
\* summarizer and the whole-document fallback is not invoked; the fallback is
\* invoked only when no line matches.
C17_MatchingLinesSummarized ==
    (req.fn = "knowledgeLookupImpl" /\ now = 1 /\ req.b \in KnowledgeTexts)
       => LET lines == SplitLines(req.b)
              hits  == MatchingLines(req.b, req.a)
          IN /\ hits # {} =>
                   /\ res.refineCalled /\ ~res.fullCalled
                   /\ Len(res.refined) = Cardinality(hits)
                   /\ \A n \in 1..Len(res.refined) :
                         \E h \in hits :
                            /\ lines[h] = res.refined[n]
                            /\ Cardinality({m \in hits : m < h}) = n - 1
             /\ res.fullCalled => hits = {}

\* The specialty strings as they are compared.
Plain(x) ==
    LET t == Unspaced(ToLowerCase(x))
        from == IF Len(t) > 0 /\ SubSeq(t, 1, 1) \in {"'", "\""} THEN 2 ELSE 1
        to   == IF Len(t) >= from /\ SubSeq(t, Len(t), Len(t)) \in {"'", "\""}
                THEN Len(t) - 1 ELSE Len(t)
    IN SubSeq(t, from, to)

Range(seq) == {seq[n] : n \in 1..Len(seq)}

\* C18: findDoctorsByFuzzySpecialty returns exactly the doctors of the tenant
\* that have a specialty string which, both strings lower-cased, trimmed and
\* stripped of one surrounding quote, is within edit distance 3 of the asked
\* specialty or contains it or is contained in it.
C18_DoctorsBySpecialty ==
    (req.fn = "findDoctorsByFuzzySpecialty" /\ now = 1)
       => Range(res) =
             {Doctors[d] : d \in
                {d \in DOMAIN Doctors :
                    /\ Doctors[d].OrgID = req.id
                    /\ \E sp \in Range(Doctors[d].Specialization) :
                          \/ LevenshteinDistance(Plain(sp), Plain(req.a)) <= 3
                          \/ Contains(Plain(sp), Plain(req.a))
                          \/ Contains(Plain(req.a), Plain(sp))}}

\* A misspelt specialty finds the tenant's cardiologist and nobody else,
\* although the other tenant has one too.
C18_Witness ==
    /\ req.fn = "findDoctorsByFuzzySpecialty" /\ now = 1
    /\ req.a = "Cardiologyst" /\ req.id = "Acme"
    /\ Len(res) = 1 /\ res[1].Name = "Dr Rao"

\* The edit distance with unit costs, by its recursive definition.
RECURSIVE EditDistance(_, _)
EditDistance(a, b) ==
    IF Len(a) = 0 THEN Len(b)
    ELSE IF Len(b) = 0 THEN Len(a)
    ELSE LET d1 == EditDistance(Tail(a), b) + 1
             d2 == EditDistance(a, Tail(b)) + 1
             d3 == EditDistance(Tail(a), Tail(b))
                      + (IF Head(a) = Head(b) THEN 0 ELSE 1)
         IN IF d1 <= d2 /\ d1 <= d3 THEN d1 ELSE IF d2 <= d3 THEN d2 ELSE d3

\* C19: levenshteinDistance(a, b) is the edit distance with unit insertion,
\* deletion and substitution cost, also when a or b is empty; it is 0 exactly
\* when a = b and it is symmetric; "Cardiologist" is within 3 of
\* "Cardiologyst", and "Dermatologist" is further than 3 from "Neurologist".
C19_EditDistance ==
    (req.fn = "levenshteinDistance" /\ now = 1)
       => /\ (Len(req.a) <= MaxWordLen /\ Len(req.b) <= MaxWordLen)
                => res = EditDistance(req.a, req.b)
          /\ (res = 0) <=> (req.a = req.b)
          /\ res = LevenshteinDistance(req.b, req.a)
          /\ (req.a = "Cardiologist" /\ req.b = "Cardiologyst") => res <= 3
          /\ (req.a = "Dermatologist" /\ req.b = "Neurologist") => res > 3

\* The distance of two specialties that differ in more than three letters.
C19_Witness ==
    /\ req.fn = "levenshteinDistance" /\ now = 1
    /\ req.a = "Dermatologist" /\ req.b = "Neurologist" /\ res = 5

\* A body as the transcript keeps it.
Stored(body) ==
    IF Len(body) <= 300 THEN body ELSE SubSeq(body, 1, 300) \o "...(truncated)"

\* C20: saveChatToPoC stores a body of at most 300 characters verbatim and a
\* longer one as its first 300 characters followed by "...(truncated)";
\* truncating twice is truncating once, so the form JSON, which the
\* interactive path truncates before it calls saveChatToPoC, is stored as
\* one truncation would store it.
C20_TruncationStored ==
    /\ (req.fn = "saveChatToPoC" /\ now = 1)
          => /\ Len(chat[1]) = 1
             /\ chat[1][1].Msg_Body = Stored(req.a)
             /\ Truncate(Truncate(req.a)) = Truncate(req.a)
    /\ (req.fn = "nfm_reply" /\ now = 1)
          => /\ Len(chat[1]) >= 1
             /\ chat[1][1].Msg_Type = "interactive"
             /\ chat[1][1].Msg_Body = Stored(Stringify(LongForm(req.a)))

\* A form JSON of more than 300 characters is in the transcript, cut once.
C20_Witness ==
    /\ req.fn = "nfm_reply" /\ now = 1 /\ res = 200
    /\ Len(Stringify(LongForm(req.a))) = 301
    /\ Len(chat[1][1].Msg_Body) = 314
    /\ SubSeq(chat[1][1].Msg_Body, 301, 314) = "...(truncated)"

-----------------------------------------------------------------------------
(* SpecAdmin: the verification and administration endpoints, between         *)
(* webhook deliveries.  req is the query and body of the request, res the    *)
(* status and the body answered.                                             *)

\* Express: res.sendStatus(n) sends the status text as the body.
StatusText(status) ==
    CASE status = 200 -> "OK"
      [] status = 400 -> "Bad Request"
      [] status = 403 -> "Forbidden"
      [] status = 404 -> "Not Found"
      [] OTHER -> "Internal Server Error"

\* app.get("/webhook"): "" is a query parameter that is not given.
GetWebhook(mode, token, challenge) ==
    IF mode # "" /\ token # ""
    THEN IF mode = "subscribe" THEN [status |-> 200, body |-> challenge]
         ELSE [status |-> 403, body |-> StatusText(403)]
    ELSE [status |-> 400, body |-> StatusText(400)]

\* res.status(status).json(body), leaving the world w.
Json(w, status, body) == [w |-> w, response |-> [status |-> status, body |-> body]]

Unauthorized(w) == Json(w, 403, "{\"error\":\"Unauthorized\"}")

\* Map.delete(key)
Without(cache, key) ==
    IF DOMAIN cache \ {key} = {} THEN <<>>
    ELSE [k \in DOMAIN cache \ {key} |-> cache[k]]

\* A faulty variant of app.post("/clear-cache"):
\* the caches are cleared before the secret is looked at.
ClearCacheUnchecked(w, r) ==
    LET w1 == [w EXCEPT !.organizationConfigs = <<>>, !.knowledgeCache = <<>>] IN
    IF r.secret # w.adminSecret THEN Unauthorized(w1)
    ELSE Json(w1, 200, "{\"success\":true,\"message\":\"Cleared all cache(s)\"}")

\* app.post("/clear-cache")
ClearCache(w, r) ==
    LET cacheType == IF r.type # "" THEN r.type ELSE "all"
        w1 == IF cacheType \in {"all", "org"}
              THEN [w EXCEPT !.organizationConfigs = <<>>] ELSE w
        w2 == IF cacheType \in {"all", "knowledge"}
              THEN [w1 EXCEPT !.knowledgeCache = <<>>] ELSE w1
    IN IF r.secret # w.adminSecret THEN Unauthorized(w)
       ELSE Json(w2, 200, "{\"success\":true,\"message\":\"Cleared " \o cacheType
                             \o " cache(s)\"}")

\* refreshOrganizationConfig: the world it leaves (the configuration it
\* returns is LoadOrganizationConfig of that world).
RefreshOrganizationConfig(w, id) ==
    CacheOrganizationConfig(
        [w EXCEPT !.organizationConfigs = Without(@, id)], id)

\* app.post("/refresh-org-config")
RefreshOrgConfig(w, r) ==
    LET w1 == RefreshOrganizationConfig(w, r.orgId) IN
    IF r.secret # w.adminSecret THEN Unauthorized(w)
    ELSE IF r.orgId # ""
    THEN IF LoadOrganizationConfig(w1, r.orgId).orgRef = 0
         THEN Json(w1, 404, "{\"error\":\"Organization " \o r.orgId \o " not found\"}")
         ELSE Json(w1, 200, "{\"success\":true,\"message\":\"Configuration refreshed for "
                               \o r.orgId \o "\"}")
    ELSE Json([w EXCEPT !.organizationConfigs = <<>>, !.knowledgeCache = <<>>], 200,
              "{\"success\":true,\"message\":\"All organization configurations cleared\"}")

\* A faulty variant of app.post("/notifications/mark-seen"):
\* markAll marks the unseen notifications of every tenant.
MarkSeenEveryTenant(w, r) ==
    IF r.secret # w.adminSecret THEN Unauthorized(w)
    ELSE Json([w EXCEPT !.notifications =
                  [n \in 1..Len(@) |-> [@[n] EXCEPT !.seen = TRUE]]],
              200, "{\"success\":true}")

\* app.post("/notifications/mark-seen"): a notification id is the index of
\* the document; a batch with an update of a document that does not exist
\* under the tenant fails as a whole.
MarkSeen(w, r) ==
    LET id     == IF r.orgId # "" THEN r.orgId ELSE DefaultOrgId
        ids    == r.notificationIds
        orgRef == GetOrganisationRef(w, id)
        Exists(k) == k \in 1..Len(w.notifications) /\ w.notifications[k].org = orgRef
        marked == IF r.markAll
                  THEN {k \in 1..Len(w.notifications) :
                           Exists(k) /\ w.notifications[k].seen = FALSE}
                  ELSE {ids[i] : i \in 1..Len(ids)}
    IN IF r.secret # w.adminSecret THEN Unauthorized(w)
       ELSE IF ~r.markAll /\ Len(ids) = 0
       THEN Json(w, 400,
                "{\"error\":\"No notification IDs provided and markAll not set to true\"}")
       ELSE IF orgRef = 0
       THEN Json(w, 404, "{\"error\":\"Organization " \o id \o " not found\"}")
       ELSE IF \E k \in marked : ~Exists(k)
       THEN Json(w, 500, "{\"error\":\"NOT_FOUND\"}")
       ELSE Json([w EXCEPT !.notifications =
                     [n \in 1..Len(@) |->
                         IF n \in marked THEN [@[n] EXCEPT !.seen = TRUE] ELSE @[n]]],
                 200, "{\"success\":true,\"organization\":\"" \o id \o "\"}")

\* app.get("/send-welcome")
SendWelcome(w, r) ==
    LET id == IF r.orgId # "" THEN r.orgId ELSE DefaultOrgId
        c  == LoadOrganizationConfig(w, id)
        w1 == CacheOrganizationConfig(w, id)
        found == QueryPoC(w1, r.phone, id)
        w2 == SendWelcomeTemplate(w1, r.phone, w1.poc[found].Name, id)
    IN IF r.secret # w.adminSecret THEN Unauthorized(w)
       ELSE IF r.phone = "" THEN Json(w, 400, "{\"error\":\"Phone number required\"}")
       ELSE IF c.orgRef = 0
       THEN Json(w1, 404, "{\"error\":\"Organization " \o id \o " not found\"}")
       ELSE IF ~c.billingActive
       THEN Json(w1, 400, "{\"error\":\"Organization " \o id \o " is not active\"}")
       ELSE IF found = 0 THEN Json(w1, 404, "{\"error\":\"PoC not found\"}")
       ELSE Json(w2, 200, "{\"success\":true,\"message\":\"Welcome template sent to "
                             \o r.phone \o "\"}")

\* The tenant's document is edited in the store (by the dashboard).
EditedToken == "tokA2"

UpdateOrganisation(w, ref) == [w EXCEPT !.organisation[ref].WA_Token = EditedToken]

\* CACHE_TTL of the variant with expiry, in ticks of the clock (a tick is
\* five minutes).
CacheTtl == 2

NullSettings ==
    [orgRef |-> 0, orgName |-> "", whatsappToken |-> "", whatsappPhoneId |-> "",
     fbNumber |-> ""]

\* A faulty variant of getOrganizationSettings:
\* an entry is served however old it is.
GetOrganizationSettingsForever(w, id) ==
    LET ref == OrgQuery(w, id)
        d   == w.organisation[ref]
        settings == [orgRef |-> ref, orgName |-> id, whatsappToken |-> d.WA_Token,
                     whatsappPhoneId |-> d.WA_Phone_ID, fbNumber |-> d.FB_Number]
    IN IF id \in DOMAIN w.orgSettingsCache
       THEN [w |-> w, settings |-> w.orgSettingsCache[id].settings]
       ELSE IF ref = 0 THEN [w |-> w, settings |-> NullSettings]
       ELSE [w |-> [w EXCEPT !.orgSettingsCache =
                        (id :> [settings |-> settings, timestamp |-> w.now]) @@ @],
             settings |-> settings]

\* getOrganizationSettings (the variant with expiry): the settings returned
\* (NullSettings for null) and the world left; w.now is Date.now().  The
\* documents have no OrgName field, so orgName is the tenant id.
GetOrganizationSettings(w, id) ==
    LET ref == OrgQuery(w, id)
        d   == w.organisation[ref]
        settings == [orgRef |-> ref, orgName |-> id, whatsappToken |-> d.WA_Token,
                     whatsappPhoneId |-> d.WA_Phone_ID, fbNumber |-> d.FB_Number]
    IN IF /\ id \in DOMAIN w.orgSettingsCache
          /\ w.orgSettingsCache[id].timestamp > w.now - CacheTtl
       THEN [w |-> w, settings |-> w.orgSettingsCache[id].settings]
       ELSE IF ref = 0 THEN [w |-> w, settings |-> NullSettings]
       ELSE [w |-> [w EXCEPT !.orgSettingsCache =
                        (id :> [settings |-> settings, timestamp |-> w.now]) @@ @],
             settings |-> settings]

\* clearOrganizationSettingsCache: one tenant's entry, or all ("").
ClearOrganizationSettingsCache(w, id) ==
    [w EXCEPT !.orgSettingsCache = IF id # "" THEN Without(@, id) ELSE <<>>]

\* A source of knowledge text that could not be read (the fetch failed or
\* was not ok, no URL is configured, the file does not exist).
Missing == "ENOENT"

NotLoaded == "No knowledge base loaded."

\* What the sources hold when loadKnowledgeBase runs: the text behind the
\* tenant's Knowledge_URL, knowledgebase_<orgId>.txt and knowledgebase.txt.
KnowledgeSources ==
    [url : {Missing, "kb-url"}, tenantFile : {Missing, "kb-tenant"},
     defaultFile : {Missing, "kb-default"}]

\* The text loadKnowledgeBase ends with when the cache has no entry.
KnowledgeText(orgName, sources) ==
    LET fromUrl == IF sources.url # Missing THEN sources.url ELSE NotLoaded IN
    IF fromUrl # NotLoaded THEN fromUrl
    ELSE IF sources.tenantFile # Missing THEN sources.tenantFile
    ELSE IF sources.defaultFile # Missing THEN sources.defaultFile
    ELSE "No knowledge base available for " \o orgName \o "."

\* loadKnowledgeBase: the text returned and the world left.
LoadKnowledgeBase(w, id, sources) ==
    LET orgConfig == LoadOrganizationConfig(w, id)
        w1 == CacheOrganizationConfig(w, id)
        knowledgeText == KnowledgeText(orgConfig.orgName, sources)
    IN IF id \in DOMAIN w.knowledgeCache
       THEN [w |-> w, text |-> w.knowledgeCache[id]]
       ELSE IF orgConfig.orgRef = 0
       THEN [w |-> w1, text |-> "No organization configuration found."]
       ELSE [w |-> [w1 EXCEPT !.knowledgeCache = (id :> knowledgeText) @@ @],
             text |-> knowledgeText]

NoQuery ==
    [path |-> "", secret |-> "", orgId |-> "", type |-> "", notificationIds |-> <<>>,
     markAll |-> FALSE, phone |-> "", mode |-> "", token |-> "", challenge |-> "",
     sources |-> <<>>]

Secrets == {AdminSecret, "guess"}

ClearCacheRequests ==
    {[NoQuery EXCEPT !.path = "POST /clear-cache", !.secret = x, !.type = t] :
        x \in Secrets, t \in {"", "knowledge"}}
      \cup {[NoQuery EXCEPT !.path = "POST /clear-cache", !.secret = AdminSecret,
                            !.type = "org"]}

RefreshRequests ==
    {[NoQuery EXCEPT !.path = "POST /refresh-org-config", !.secret = x, !.orgId = id] :
        x \in Secrets, id \in {"", "Acme"}}
      \cup {[NoQuery EXCEPT !.path = "POST /refresh-org-config", !.secret = AdminSecret,
                            !.orgId = "Ghost"]}

MarkSeenRequests ==
    {[NoQuery EXCEPT !.path = "POST /notifications/mark-seen", !.secret = x,
                     !.orgId = id, !.markAll = TRUE] :
        x \in Secrets, id \in {"Acme", "Other"}}
      \cup {[NoQuery EXCEPT !.path = "POST /notifications/mark-seen", !.secret = x,
                            !.orgId = "Acme", !.notificationIds = ids] :
              x \in Secrets, ids \in {<<1>>}}
      \cup {[NoQuery EXCEPT !.path = "POST /notifications/mark-seen",
                            !.secret = AdminSecret, !.orgId = id, !.notificationIds = ids] :
              id \in {"Other", "Ghost", ""}, ids \in {<<>>, <<1, 2>>}}

SendWelcomeRequests ==
    {[NoQuery EXCEPT !.path = "GET /send-welcome", !.secret = x, !.orgId = "Acme",
                     !.phone = "p1"] : x \in Secrets}
      \cup {[NoQuery EXCEPT !.path = "GET /send-welcome", !.secret = AdminSecret,
                            !.orgId = "Idle", !.phone = "p1"]}

\* The request r is answered with response, and leaves the world w.
Serve(r, w, response) ==
    /\ now < MaxEvents
    /\ SetWorld(w)
    /\ now' = now + 1
    /\ req' = r
    /\ orgId' = r.orgId
    /\ res' = response
    /\ UNCHANGED handlers

VerifyRequests ==
    {[NoQuery EXCEPT !.path = "GET /webhook", !.mode = m, !.token = t, !.challenge = c] :
        m \in {"", "subscribe", "unsubscribe"},
        t \in {"", "default_verify_token", "guess"},
        c \in {"c1"}}

VerifyWebhook ==
    \E r \in VerifyRequests :
        /\ r.path = "GET /webhook"
        /\ Serve(r, World, GetWebhook(r.mode, r.token, r.challenge))

\* Deliveries that make contacts and notifications for two tenants.
AdminDeliveries ==
    {[ForAcme EXCEPT !.msg = TextMsg("p1", "hi")],
     [ForOther EXCEPT !.msg = TextMsg("p1", "hi")]}

DeliverAdminText ==
    \E r \in AdminDeliveries :
        /\ r.msg.type = "text"
        /\ PostWebhook(r, NoEnv)

PostClearCache ==
    \E r \in ClearCacheRequests : \E out \in {ClearCache(World, r)} :
        /\ r.path = "POST /clear-cache"
        /\ Serve(r, out.w, out.response)

PostRefreshOrgConfig ==
    \E r \in RefreshRequests : \E out \in {RefreshOrgConfig(World, r)} :
        /\ r.path = "POST /refresh-org-config"
        /\ Serve(r, out.w, out.response)

PostMarkSeen ==
    \E r \in MarkSeenRequests : \E out \in {MarkSeen(World, r)} :
        /\ r.path = "POST /notifications/mark-seen"
        /\ Serve(r, out.w, out.response)

GetSendWelcome ==
    \E r \in SendWelcomeRequests : \E out \in {SendWelcome(World, r)} :
        /\ r.path = "GET /send-welcome"
        /\ Serve(r, out.w, out.response)

\* The store changes under the running process, once.
EditOrganisation ==
    /\ organisation = OrganisationDocs
    /\ SetWorld(UpdateOrganisation(World, 1))
    /\ req' = [NoQuery EXCEPT !.path = "Organisation/1 update"]
    /\ res' = [status |-> 0, body |-> ""]
    /\ UNCHANGED <<now, orgId, handlers>>

\* A caller loads the settings of a tenant (the variant with expiry).
LoadSettings ==
    \E id \in {"Acme", "Ghost"} :
        \E out \in {GetOrganizationSettings([World EXCEPT !.now = now + 1], id)} :
            /\ out.settings.orgRef \in 0..Len(organisation)
            /\ Serve([NoQuery EXCEPT !.path = "getOrganizationSettings", !.orgId = id],
                     out.w, [status |-> 0, body |-> out.settings.whatsappToken])

ClearSettings ==
    \E id \in {"", "Acme"} :
        /\ DOMAIN orgSettingsCache # {}
        /\ Serve([NoQuery EXCEPT !.path = "clearOrganizationSettingsCache", !.orgId = id],
                 ClearOrganizationSettingsCache(World, id), [status |-> 0, body |-> ""])

\* A caller (knowledgeLookupImpl, /test-org-config) loads the knowledge of a
\* tenant while the sources are as drawn.
LoadKnowledge ==
    \E id \in {"Acme", "Ghost"}, sources \in KnowledgeSources :
        \E out \in {LoadKnowledgeBase(World, id, sources)} :
            /\ out.text # Missing
            /\ Serve([NoQuery EXCEPT !.path = "loadKnowledgeBase", !.orgId = id,
                                     !.sources = sources],
                     out.w, [status |-> 0, body |-> out.text])

NextAdmin ==
    \/ LoadKnowledge
    \/ VerifyWebhook
    \/ DeliverAdminText
    \/ PostClearCache
    \/ PostRefreshOrgConfig
    \/ PostMarkSeen
    \/ GetSendWelcome
    \/ EditOrganisation
    \/ LoadSettings
    \/ ClearSettings

SpecAdmin == Init /\ [][NextAdmin]_vars

\* The request answered last was sent to path.
Asked(path) == "path" \in DOMAIN req /\ req.path = path

\* The verify token of the deployment (the tenant configuration's default).
VerifyToken == "default_verify_token"

\* C21: GET /webhook answers 200 with hub.challenge when hub.mode is
\* "subscribe" and hub.verify_token is the configured token, 403 when both
\* are given but the mode is not "subscribe" or the token does not match, and
\* 400 when hub.mode or hub.verify_token is missing.
C21_WebhookVerification ==
    Asked("GET /webhook")
       => IF req.mode = "" \/ req.token = "" THEN res.status = 400
          ELSE IF req.mode = "subscribe" /\ req.token = VerifyToken
               THEN res.status = 200 /\ res.body = req.challenge
          ELSE res.status = 403

AdminPaths ==
    {"POST /clear-cache", "POST /refresh-org-config", "POST /notifications/mark-seen",
     "GET /send-welcome"}

\* C22: an admin request whose secret is not the configured one is answered
\* 403 with a body that does not contain the secret, and changes nothing:
\* the caches, contacts and notifications stay and no message is sent.
C22_UnauthorizedAdmin ==
    [][("path" \in DOMAIN req' /\ req'.path \in AdminPaths /\ req'.secret # AdminSecret)
          => /\ res'.status = 403
             /\ ~Contains(res'.body, AdminSecret)
             /\ UNCHANGED <<organisation, poc, chat, patients, appointment, ticket,
                            checkin, notifications, outbox, organizationConfigs,
                            knowledgeCache>>
      ]_vars

\* A request with a wrong secret has been refused while a configuration was
\* cached and a notification was unseen.
C22_Witness ==
    /\ "path" \in DOMAIN req /\ req.path \in AdminPaths /\ req.secret # AdminSecret
    /\ res.status = 403
    /\ DOMAIN organizationConfigs # {}
    /\ \E n \in 1..Len(notifications) : ~notifications[n].seen

\* The tenant a mark-seen request names.
MarkSeenTenant(r) == IF r.orgId # "" THEN r.orgId ELSE DefaultOrgId

\* C23: a notification is created unseen; afterwards it is never removed and
\* changes only by seen going from false to true; a mark-seen request of one
\* tenant, markAll included, changes no notification of another tenant.
C23_NotificationsOnlySeen ==
    [][/\ Len(notifications') >= Len(notifications)
       /\ \A n \in 1..Len(notifications) :
             \/ notifications'[n] = notifications[n]
             \/ /\ ~notifications[n].seen
                /\ notifications'[n] = [notifications[n] EXCEPT !.seen = TRUE]
                /\ "path" \in DOMAIN req'
                /\ req'.path = "POST /notifications/mark-seen"
                /\ notifications[n].org = OrgQuery(World, MarkSeenTenant(req'))
       /\ \A n \in (Len(notifications) + 1)..Len(notifications') :
             ~notifications'[n].seen
      ]_vars

\* markAll for one tenant has marked its notification and left the other
\* tenant's unseen.
C23_Witness ==
    /\ Asked("POST /notifications/mark-seen") /\ req.markAll /\ res.status = 200
    /\ \E n, m \in 1..Len(notifications) :
          /\ notifications[n].org = OrgQuery(World, req.orgId) /\ notifications[n].seen
          /\ notifications[m].org # notifications[n].org /\ ~notifications[m].seen

\* Display names a profile may carry.
DisplayNames == {"Ann", " ann", "Bob Roy ", "Unknown"}

TurnsBefore(p) == IF p <= Len(poc) THEN poc[p].messages ELSE <<>>

SystemTurns(turns) == {i \in 1..Len(turns) : turns[i].role = "system"}

\* The step has appended one user turn (the text of the request) and one
\* assistant turn to the history of p, after seeding it if it was empty.
RoundAppended(p) ==
    LET old == TurnsBefore(p)
        new == poc'[p].messages
        seeded == IF old = <<>> THEN 1 ELSE 0
    IN /\ Len(new) = Len(old) + seeded + 2
       /\ SubSeq(new, seeded + 1, seeded + Len(old)) = old
       /\ new[Len(new) - 1] = [role |-> "user", content |-> req'.msg.text]
       /\ new[Len(new)].role = "assistant"

Delivered == "object" \in DOMAIN req'

\* The configuration of tenant id as the store has it now.
StoredConfig(id) == ConfigOf(World, id, OrgQuery(World, id))

\* The cached settings of tenant id are younger than ten minutes at time t.
Fresh(id, t) ==
    id \in DOMAIN orgSettingsCache /\ t - orgSettingsCache[id].timestamp < CacheTtl

\* C26: a tenant configuration is served from the cache, without reading the
\* store, exactly while the cache has an entry for the tenant (that is, in
\* the variant with expiry, less than ten minutes old); after a refresh or a
\* cache clear, or once the entry has expired, the next load returns and
\* caches what the store holds now; a tenant that is not found is never
\* cached.
C26_ConfigCache ==
    [][/\ \A id \in DOMAIN organizationConfigs' :
             organizationConfigs'[id].orgRef # 0 /\ OrgQuery(World, id) # 0
       /\ \A id \in DOMAIN orgSettingsCache' :
             orgSettingsCache'[id].settings.orgRef # 0 /\ OrgQuery(World, id) # 0
       /\ (Delivered /\ OrgQuery(World, orgId') # 0)
             => /\ organizationConfigs'[orgId'] =
                      IF orgId' \in DOMAIN organizationConfigs
                      THEN organizationConfigs[orgId'] ELSE StoredConfig(orgId')
                /\ \A n \in (Len(outbox) + 1)..Len(outbox') :
                      outbox'[n].token = organizationConfigs'[orgId'].whatsappToken
       /\ (~Delivered /\ req'.path = "POST /refresh-org-config" /\ res'.status = 200)
             => IF req'.orgId = "" THEN organizationConfigs' = <<>>
                ELSE organizationConfigs'[req'.orgId] = StoredConfig(req'.orgId)
       /\ (~Delivered /\ req'.path = "POST /clear-cache" /\ res'.status = 200
              /\ req'.type # "knowledge")
             => organizationConfigs' = <<>>
       /\ (~Delivered /\ req'.path = "getOrganizationSettings")
             => IF Fresh(req'.orgId, now')
                THEN /\ orgSettingsCache' = orgSettingsCache
                     /\ res'.body = orgSettingsCache[req'.orgId].settings.whatsappToken
                ELSE IF OrgQuery(World, req'.orgId) = 0
                THEN orgSettingsCache' = orgSettingsCache /\ res'.body = ""
                ELSE /\ res'.body = StoredConfig(req'.orgId).whatsappToken
                     /\ orgSettingsCache'[req'.orgId].timestamp = now'
                     /\ orgSettingsCache'[req'.orgId].settings.whatsappToken = res'.body
       /\ (~Delivered /\ req'.path = "clearOrganizationSettingsCache")
             => \A id \in DOMAIN orgSettingsCache' :
                   req'.orgId \notin {"", id} /\ orgSettingsCache'[id] = orgSettingsCache[id]
      ]_vars

\* After the store was edited, the settings were served from a fresh entry
\* as they were before the edit, and the configuration cache still holds the
\* configuration as it was before the edit.
C26_Witness ==
    /\ Asked("getOrganizationSettings") /\ req.orgId = "Acme"
    /\ organisation[1].WA_Token = EditedToken
    /\ res.body = "tokA"
    /\ "Acme" \in DOMAIN organizationConfigs
    /\ organizationConfigs["Acme"].whatsappToken = "tokA"

\* The first source that could be read, in the order URL, tenant file,
\* default file (Missing when none could).
FirstSource(sources) ==
    IF sources.url # Missing THEN sources.url
    ELSE IF sources.tenantFile # Missing THEN sources.tenantFile
    ELSE sources.defaultFile

\* C27: loadKnowledgeBase returns and caches the text of the first source
\* that could be read, in the order URL, tenant file, default file; when
\* every source fails nothing is cached; cached text is returned unchanged
\* and stays until a cache clear.
C27_KnowledgeSources ==
    [][/\ (~Delivered /\ req'.path = "loadKnowledgeBase")
             => IF req'.orgId \in DOMAIN knowledgeCache
                THEN /\ res'.body = knowledgeCache[req'.orgId]
                     /\ knowledgeCache' = knowledgeCache
                ELSE IF OrgQuery(World, req'.orgId) = 0 \/ FirstSource(req'.sources) = Missing
                THEN knowledgeCache' = knowledgeCache
                ELSE /\ res'.body = FirstSource(req'.sources)
                     /\ knowledgeCache' =
                           (req'.orgId :> FirstSource(req'.sources)) @@ knowledgeCache
       /\ (Delivered \/ req'.path \notin
              {"loadKnowledgeBase", "POST /clear-cache", "POST /refresh-org-config"})
             => knowledgeCache' = knowledgeCache
      ]_vars

\* Every transcript is as it was, possibly with entries added at its end.
TranscriptsExtended ==
    \A p \in DOMAIN chat :
        /\ p \in DOMAIN chat' /\ Len(chat'[p]) >= Len(chat[p])
        /\ SubSeq(chat'[p], 1, Len(chat[p])) = chat[p]

\* C28: a transcript is append-only: no step edits or removes an entry, and
\* every saveChatToPoC call adds exactly one entry and sets the contact's
\* lastSeen to the time of the call.
C28_TranscriptAppendOnly ==
    [][/\ TranscriptsExtended
       /\ ("fn" \in DOMAIN req /\ now' = 1
              /\ req.fn \in {"saveChatToPoC", "saveChatToPoC (single-tenant)"})
             => /\ Len(chat'[1]) = 1
                /\ poc'[1].lastSeen = now'
      ]_vars

\* The notifications the step added that carry the event tag.
NewNotes(event) ==
    {n \in (Len(notifications) + 1)..Len(notifications') : notifications'[n].event = event}

\* The appointments the step set (created, or replaced when generateId
\* returned an identifier already in use).
AppointmentsSet ==
    {k \in DOMAIN appointment' :
        k \notin DOMAIN appointment \/ appointment'[k].createdAt # appointment[k].createdAt}

\* The appointments the step updated with a feedback.
FeedbackSet ==
    {k \in DOMAIN appointment \ AppointmentsSet :
        appointment'[k].feedback # appointment[k].feedback}

\* Each record has its one notification with the tag, of the record's tenant.
OneEach(records, event) ==
    /\ Cardinality(NewNotes(event)) = Cardinality(records)
    /\ \A k \in records : \E n \in NewNotes(event) :
          notifications'[n].org = k[1] /\ notifications'[n].docRef = k

\* The contacts the step registered.
Registered ==
    {p \in DOMAIN poc' : poc'[p].registered /\ (p \in DOMAIN poc => ~poc[p].registered)}

\* C29: a step that persists an appointment, a ticket, a check-in, a
\* feedback or a registration emits exactly one notification tagged
\* 'Appointment', 'Ticket', 'Checkin', 'Feedback' or 'Registration' for it,
\* under the record's organization.
C29_FlowNotifications ==
    [][/\ OneEach(AppointmentsSet, "Appointment")
       /\ OneEach(Written(ticket, ticket'), "Ticket")
       /\ OneEach(Written(checkin, checkin'), "Checkin")
       /\ OneEach(FeedbackSet, "Feedback")
       /\ \A p \in Registered :
             /\ Cardinality(NewNotes("Registration")) = 1
             /\ \A n \in NewNotes("Registration") :
                   /\ notifications'[n].PoCRef = p
                   /\ notifications'[n].org = OrgQuery(World, poc'[p].addedBy)
      ]_vars

\* The step delivered a form reply whose response_json does not parse, to a
\* tenant that has a document and is active.
MalformedReply ==
    /\ Delivered /\ req'.object # ""
    /\ req'.msg.type = "interactive" /\ req'.msg.nfmReply /\ ~req'.msg.jsonOk
    /\ LoadOrganizationConfig(World, orgId').orgRef # 0
    /\ LoadOrganizationConfig(World, orgId').billingActive

\* C30: a form reply whose response_json is not valid JSON is answered 500
\* and leaves the store as it was: no Contact, transcript entry, patient,
\* record or notification is written and nothing is sent.
C30_MalformedReply ==
    [][MalformedReply
          => /\ res' = 500
             /\ UNCHANGED <<organisation, poc, chat, patients, appointment, ticket,
                            checkin, notifications, outbox>>
      ]_vars

\* A malformed form reply of a sender who has no Contact under the tenant was
\* answered 500, while the tenant has Contacts of others.
C30_Witness ==
    /\ "object" \in DOMAIN req /\ req.msg.type = "interactive" /\ ~req.msg.jsonOk
    /\ res = 500
    /\ \E p \in DOMAIN poc : poc[p].addedBy = orgId
    /\ QueryPoC(World, req.msg.from, orgId) = 0

\* The patients the step added to Contact c through createAppointmentDoc
\* (the default patient of a new Contact has no appointmentId).
BookedPatients(c) ==
    {i \in 1..Len(patients'[c]) :
        /\ c \in DOMAIN patients => i > Len(patients[c])
        /\ patients'[c][i].appointmentId # ""}

ListEntries(text) == {sp \in PossibleSpecialties : ToLowerCase(sp) = ToLowerCase(text)}

\* C32: classifySymptomWithGpt returns a name that equals an entry of the
\* specialty list case-insensitively: the LLM's trimmed answer when it is
\* one, "General Physician" for any other answer, for no answer and when the
\* LLM call fails.
C32_SpecialtyCoerced ==
    (req.fn = "classifySymptomWithGpt" /\ now = 1)
        => /\ ListEntries(res) # {}
           /\ res = IF req.b # "throws" /\ ListEntries(Trim(req.a)) # {}
                    THEN Trim(req.a) ELSE "General Physician"

\* An answer that contains a list entry without being one was coerced.
C32_Witness ==
    /\ req.fn = "classifySymptomWithGpt" /\ now = 1
    /\ req.a = "I suggest a Cardiologist" /\ req.b = ""
    /\ res = "General Physician"

\* Every document of the collection is as it was.
Kept(coll, collNext) == \A k \in DOMAIN coll : k \in DOMAIN collNext /\ collNext[k] = coll[k]

\* C33: a Check-in, an Appointment or a Ticket, once persisted, is never
\* overwritten or modified by a later operation.
C33_WriteOnce ==
    [][/\ Kept(checkin, checkin')
       /\ Kept(appointment, appointment')
       /\ Kept(ticket, ticket')
      ]_vars

-----------------------------------------------------------------------------
(* SpecBotMode: texts of contacts whose BotMode an operator switches off and *)
(* on in the store between deliveries.                                       *)

BotTexts == {"hi", "Where is the clinic?", "Checkin:Acme", "Checkin:Other"}

DeliverBotText ==
    \E t \in BotTexts, p \in {"p1", "p2"}, l \in {LlmContent("Sure."), LlmThrows} :
        /\ t # ""
        /\ PostWebhook([ForAcme EXCEPT !.msg = TextMsg(p, t)], [NoEnv EXCEPT !.llm = l])

\* The BotMode field of a Contact is written from outside the program.
SwitchBotMode ==
    \E c \in DOMAIN poc :
        /\ SetWorld([World EXCEPT !.poc[c].BotMode = ~@])
        /\ req' = [NoQuery EXCEPT !.path = "PoC update"]
        /\ res' = 0
        /\ UNCHANGED <<now, orgId, handlers>>

NextBotMode == DeliverBotText \/ SwitchBotMode

SpecBotMode == Init /\ [][NextBotMode]_vars

\* The step added exactly one transcript entry for Contact c: the inbound text.
OneInbound(c) ==
    /\ Len(chat'[c]) = Len(chat[c]) + 1
    /\ SubSeq(chat'[c], 1, Len(chat[c])) = chat[c]
    /\ chat'[c][Len(chat'[c])].Direction = "inbound"
    /\ chat'[c][Len(chat'[c])].Msg_Body = req'.msg.text

\* C34: a text of a Contact whose BotMode is false that is not a check-in
\* is answered 200 with one inbound transcript entry and nothing else: no
\* LLM round (the answer is 200 also when the LLM would fail), no outbound
\* message or transcript entry, turn history unchanged; a check-in command is
\* still served as a check-in.
C34_BotModeOff ==
    [][\A c \in DOMAIN poc :
          (/\ Delivered /\ req'.msg.type = "text"
           /\ poc[c].Phone = req'.msg.from /\ poc[c].addedBy = orgId'
           /\ poc[c].BotMode = FALSE)
          => /\ res' = 200
             /\ poc'[c].messages = poc[c].messages
             /\ IF StartsWith(req'.msg.text, "Checkin:")
                      /\ SubSeq(req'.msg.text, 9, Len(req'.msg.text)) = orgId'
                THEN /\ Cardinality(Written(checkin, checkin')) = 1
                     /\ Len(outbox') = Len(outbox) + 1
                     /\ Len(chat'[c]) = Len(chat[c]) + 2
                ELSE /\ OneInbound(c)
                     /\ outbox' = outbox
                     /\ checkin' = checkin
      ]_vars

\* A question of a Contact whose BotMode is off was stored, and notified,
\* after the Contact had been answered by the LLM while BotMode was on.
C34_Witness ==
    /\ "object" \in DOMAIN req /\ req.msg.text = "Where is the clinic?"
    /\ req.msg.from = "p1" /\ res = 200
    /\ Len(poc) >= 1 /\ poc[1].BotMode = FALSE
    /\ Len(poc[1].messages) > 0
    /\ chat[1][Len(chat[1])].Direction = "inbound"
    /\ chat[1][Len(chat[1])].Msg_Body = "Where is the clinic?"
    /\ notifications[Len(notifications)].event = "Message"

-----------------------------------------------------------------------------
(* SpecBilling: deliveries to a tenant whose BillingActive field is edited   *)
(* in the store, with and without a refresh of its cached configuration.     *)

DeliverBillingText ==
    \E h \in {ForAcme, ForIdle}, l \in {LlmContent("Sure."), LlmThrows} :
        /\ h.xOrganizationId # ""
        /\ PostWebhook([h EXCEPT !.msg = TextMsg("p1", "hi")], [NoEnv EXCEPT !.llm = l])

\* The BillingActive field of a tenant is written from outside the program.
SetBillingActive ==
    \E ref \in {1, 3} :
        /\ SetWorld([World EXCEPT !.organisation[ref].BillingActive = ~@])
        /\ req' = [NoQuery EXCEPT !.path = "Organisation update"]
        /\ res' = [status |-> 0, body |-> ""]
        /\ UNCHANGED <<now, orgId, handlers>>

NextBilling == DeliverBillingText \/ SetBillingActive \/ PostRefreshOrgConfig

SpecBilling == Init /\ [][NextBilling]_vars

\* The configuration loadOrganizationConfig gives the step: the cached one,
\* else the store's.
LoadedConfig ==
    IF orgId' \in DOMAIN organizationConfigs
    THEN organizationConfigs[orgId'] ELSE StoredConfig(orgId')

\* C35: a delivery to a tenant whose loaded configuration is not billing
\* active is answered 200 and writes and sends nothing (whatever the LLM
\* would answer); the loaded configuration is the cached one while there is
\* one, so a tenant deactivated in the store is still served, and one
\* activated in the store still dropped, until the entry is refreshed or
\* cleared.
C35_BillingInactive ==
    [][(Delivered /\ OrgQuery(World, orgId') # 0)
          => IF LoadedConfig.billingActive
             THEN /\ Len(chat') >= 1
                  /\ chat'[1][Len(chat'[1])].Timestamp = now'
             ELSE /\ res' = 200
                  /\ UNCHANGED <<organisation, poc, chat, patients, appointment, ticket,
                                 checkin, notifications, outbox>>
      ]_vars

\* A text to a tenant that the store says is inactive was answered by the
\* LLM, the cached configuration being the one of before.
C35_Witness ==
    /\ "object" \in DOMAIN req /\ orgId = "Acme" /\ res = 200
    /\ organisation[1].BillingActive = FALSE
    /\ organizationConfigs["Acme"].billingActive
    /\ Len(chat) = 1 /\ chat[1][Len(chat[1])].Timestamp = now
    /\ chat[1][Len(chat[1])].Direction = "outbound"

-----------------------------------------------------------------------------
(* SpecOrphan: form replies to a tenant whose Organisation document is given *)
(* another OrgID in the store after its configuration was cached.            *)

DeliverOrphanForm ==
    \E f \in {SupportForm, AppointmentForm(FlowToken1, "Ann")}, n \in IdSuffixes :
        /\ "flow_token" \in DOMAIN f \/ "screen_0_Description_of_issue_2" \in DOMAIN f
        /\ PostWebhook([ForAcme EXCEPT !.msg = FormMsg("p1", f)],
                       [NoEnv EXCEPT !.idSuffix = n])

\* The OrgID field of a tenant's document is written from outside the program.
RenameOrganisation ==
    \E id \in {"Acme", "Acme-old"} :
        /\ organisation[1].OrgID # id
        /\ SetWorld([World EXCEPT !.organisation[1].OrgID = id])
        /\ req' = [NoQuery EXCEPT !.path = "Organisation update"]
        /\ res' = [status |-> 0, body |-> ""]
        /\ UNCHANGED <<now, orgId, handlers>>

NextOrphan == DeliverOrphanForm \/ RenameOrganisation

SpecOrphan == Init /\ [][NextOrphan]_vars

\* The texts the step sent.
TextsSent == {outbox'[n].text : n \in (Len(outbox) + 1)..Len(outbox')}

\* C36: "Your appointment has been recorded. Thank you!" is sent only by a
\* step that persisted an Appointment, and "We have created your support
\* ticket. Thank you!" only by a step that persisted a Ticket.
C36_AckOnlyIfPersisted ==
    [][/\ "Your appointment has been recorded. Thank you!" \in TextsSent
             => Written(appointment, appointment') # {}
       /\ "We have created your support ticket. Thank you!" \in TextsSent
             => Written(ticket, ticket') # {}
      ]_vars

-----------------------------------------------------------------------------
(* SpecUnset: admin requests that carry no secret, in a deployment that sets *)
(* ADMIN_SECRET and in one that does not.                                    *)

InitUnset ==
    /\ organisation = OrganisationDocs
    /\ poc = <<>>
    /\ chat = <<>>
    /\ patients = <<>>
    /\ appointment = <<>>
    /\ ticket = <<>>
    /\ checkin = <<>>
    /\ notifications = <<>>
    /\ outbox = <<>>
    /\ organizationConfigs = <<>>
    /\ knowledgeCache = <<>>
    /\ orgSettingsCache = <<>>
    /\ adminSecret \in {AdminSecret, ""}
    /\ now = 0
    /\ req = BaseRequest
    /\ orgId = ""
    /\ res = 0
    /\ handlers = NoHandlers

\* Admin requests without the secret parameter (req.query.secret undefined).
NoSecretRequests ==
    {[NoQuery EXCEPT !.path = "POST /clear-cache", !.type = t] : t \in {"", "org"}}
      \cup {[NoQuery EXCEPT !.path = "POST /refresh-org-config", !.orgId = id] :
               id \in {"", "Acme"}}
      \cup {[NoQuery EXCEPT !.path = "POST /notifications/mark-seen", !.orgId = "Acme",
                            !.markAll = TRUE]}
      \cup {[NoQuery EXCEPT !.path = "GET /send-welcome", !.orgId = "Acme", !.phone = "p2"]}

\* An admin endpoint is called without a secret.
PostWithoutSecret ==
    \E r \in NoSecretRequests :
        \E out \in {CASE r.path = "POST /clear-cache" -> ClearCache(World, r)
                      [] r.path = "POST /refresh-org-config" -> RefreshOrgConfig(World, r)
                      [] r.path = "POST /notifications/mark-seen" -> MarkSeen(World, r)
                      [] OTHER -> SendWelcome(World, r)} :
            /\ r.secret = ""
            /\ Serve(r, out.w, out.response)

NextUnset == DeliverAdminText \/ LoadKnowledge \/ PostWithoutSecret

SpecUnset == InitUnset /\ [][NextUnset]_vars

\* C37: an admin request without a secret is answered 403 and changes
\* nothing, whether ADMIN_SECRET is set or not.
C37_NoSecretRefused ==
    [][("path" \in DOMAIN req' /\ req'.path \in AdminPaths /\ req'.secret = "")
          => /\ res'.status = 403
             /\ UNCHANGED <<organisation, poc, chat, patients, appointment, ticket,
                            checkin, notifications, outbox, organizationConfigs,
                            knowledgeCache>>
      ]_vars

C39_DoctorOfTenant ==
    \A k \in DOMAIN appointment :
        Doctors[appointment[k].doctorId].OrgID = appointment[k].OrgID

====
